---- MODULE Spec2Model ----
(***************************************************************************)
(* Session and local store core of the WhatsApp MCP server                 *)
(* (src/src/services/whatsapp-client.ts, class WhatsAppClient, and the     *)
(* onConnection subscriber registered by main in src/unnamed/part_002).    *)
(*                                                                         *)
(* The program is single-threaded and event driven: every action below is  *)
(* one handler, timer callback or synchronous stretch of an async method,  *)
(* run to its next suspension point.                                       *)
(***************************************************************************)
EXTENDS Integers, Sequences, FiniteSets, TLC

VARIABLES
    socketGeneration,     \* this.socketGeneration
    socket,               \* this.socket: generation of the socket held, 0 = null
    sockets,              \* generations whose socket was built and has handlers
    status,               \* this._status
    reconnectCount440,    \* this.reconnectCount440
    qrDisplayed,          \* this.qrDisplayed
    reconnectTimers,      \* pending setTimeout callbacks of the close handler
    stabilizeTimers,      \* pending 30 s setTimeout callbacks of the open handler
    connecting,           \* connect() calls suspended before the socket is built
    loggingOut,           \* disconnect() calls suspended in socket.logout()
    persistMessages,      \* this.persistMessages
    now,                  \* Math.floor(Date.now() / 1000)
    chatStore,            \* this.chatStore, in Map insertion order
    groupMetadataInFlight,\* this.groupMetadataInFlight
    groupLookups,         \* sock.groupMetadata requests not yet answered, per group
    saveChatStoreTimer,   \* pending callbacks of scheduleSaveChatStore's timer
    chatWrites,           \* writes chained on saveChatStoreInFlight, oldest first
    chatFile,             \* chat-store.json
    messageStore,         \* this.messageStore, in Map insertion order
    rawMessageByKey,      \* this.rawMessageByKey
    saveMessageStoreTimer,\* pending callbacks of scheduleSaveMessageStore's timer
    messageWrites,        \* writes chained on saveMessageStoreInFlight, oldest first
    messageFile,          \* message-store.json
    groupFetches,         \* getChats calls suspended in groupFetchAllParticipating
    lastOp                \* the handler that ran last and what it did

connVars == <<socketGeneration, socket, sockets, status, reconnectCount440,
              qrDisplayed, reconnectTimers, stabilizeTimers, connecting, loggingOut>>
chatVars == <<chatStore, groupMetadataInFlight, groupLookups, groupFetches>>
chatPersistVars == <<saveChatStoreTimer, chatWrites, chatFile>>
storeVars == <<messageStore, rawMessageByKey>>
persistVars == <<saveMessageStoreTimer, messageWrites, messageFile>>
vars == <<connVars, persistMessages, now, chatVars, chatPersistVars, storeVars,
          persistVars, lastOp>>

----------------------------------------------------------------------------
(* Bounds of the model *)

MaxGen == 2
MaxSockets == 3
MaxTimers == 2
MaxTimestamp == 3
MaxMessagesPerChat == 2
MaxMessagesTotal == 3
MaxWrites == 2
MaxConflicts == 3
MaxLogouts == 1
MaxLimit == 3
MaxLookups == 2

(* Program constants *)

ConflictCode == 440
LoggedOutCode == 401
ConflictThreshold == 2
ReconnectDelay == 2000
ConflictDelay == 5000

None == "none"

----------------------------------------------------------------------------
(* Inbound data the transport can deliver *)

ChatIds == {"a@s.whatsapp.net", "b@s.whatsapp.net", "g@g.us"}
MessageIds == {"m1", None}            \* None: msg.key.id is missing
Timestamps == 1..MaxTimestamp
StatusCodes == {LoggedOutCode, ConflictCode, 428}

(* A raw envelope, as far as the stores read it *)
PushNames == {None, "Alice"}
MediaKinds == {None, "image"}                \* the content is a media message
Envelopes ==
    [remoteJid : ChatIds, id : MessageIds, messageTimestamp : Timestamps,
     pushName : PushNames, media : MediaKinds]

----------------------------------------------------------------------------
(* The message store: a Map chatId -> StoredMessage[], kept as the sequence *)
(* of its entries in insertion order.                                       *)

RECURSIVE IndexOfChat(_, _)
IndexOfChat(store, chatId) ==
    IF store = <<>> THEN 0
    ELSE IF store[Len(store)].chatId = chatId /\ IndexOfChat(SubSeq(store, 1, Len(store) - 1), chatId) = 0
         THEN Len(store)
         ELSE IndexOfChat(SubSeq(store, 1, Len(store) - 1), chatId)

StoreGet(store, chatId) ==
    IF IndexOfChat(store, chatId) = 0 THEN <<>>
    ELSE store[IndexOfChat(store, chatId)].list

StoreSet(store, chatId, list) ==
    IF IndexOfChat(store, chatId) = 0
    THEN Append(store, [chatId |-> chatId, list |-> list])
    ELSE [store EXCEPT ![IndexOfChat(store, chatId)].list = list]

RECURSIVE flattenMessageStore(_)
flattenMessageStore(store) ==
    IF store = <<>> THEN <<>>
    ELSE store[1].list \o flattenMessageStore(Tail(store))

countMessages(store) == Len(flattenMessageStore(store))

(* Array.prototype.sort((a, b) => a.timestamp - b.timestamp): stable *)
RECURSIVE InsertByTimestamp(_, _)
InsertByTimestamp(sorted, m) ==
    IF sorted = <<>> THEN <<m>>
    ELSE IF sorted[Len(sorted)].timestamp <= m.timestamp
         THEN Append(sorted, m)
         ELSE Append(InsertByTimestamp(SubSeq(sorted, 1, Len(sorted) - 1), m),
                     sorted[Len(sorted)])

RECURSIVE SortByTimestamp(_)
SortByTimestamp(list) ==
    IF list = <<>> THEN <<>>
    ELSE InsertByTimestamp(SortByTimestamp(SubSeq(list, 1, Len(list) - 1)),
                           list[Len(list)])

Max(a, b) == IF a >= b THEN a ELSE b

(* variant: the first n kept instead of the last n *)
LastN_Oldest(list, n) == SubSeq(list, 1, IF Len(list) < n THEN Len(list) ELSE n)

(* list.slice(Math.max(0, list.length - n)) *)
LastN(list, n) == SubSeq(list, Max(0, Len(list) - n) + 1, Len(list))

(* variant: no per-chat limit *)
PrunePerChat_Skipped(store) == store

(* pruneMessageStore, first loop: the per-chat limit *)
PrunePerChat(store) ==
    [i \in 1..Len(store) |->
        IF Len(store[i].list) <= MaxMessagesPerChat THEN store[i]
        ELSE [store[i] EXCEPT !.list = LastN(SortByTimestamp(store[i].list),
                                             MaxMessagesPerChat)]]

(* pruneMessageStore, rebuilding the Map from the messages kept *)
RECURSIVE Regroup(_, _)
Regroup(store, keep) ==
    IF keep = <<>> THEN store
    ELSE Regroup(StoreSet(store, keep[1].chatId,
                          Append(StoreGet(store, keep[1].chatId), keep[1])),
                 Tail(keep))

(* variant: the oldest kept when the total is over the cap *)
PruneGlobal_Oldest(store) ==
    IF countMessages(store) <= MaxMessagesTotal THEN store
    ELSE Regroup(<<>>, LastN_Oldest(SortByTimestamp(flattenMessageStore(store)),
                                    MaxMessagesTotal))

(* Enforce global limit *)
PruneGlobal(store) ==
    IF countMessages(store) <= MaxMessagesTotal THEN store
    ELSE Regroup(<<>>, LastN(SortByTimestamp(flattenMessageStore(store)),
                             MaxMessagesTotal))

pruneMessageStore(store) == PruneGlobal(PrunePerChat(store))

(* `${chatId}:${id}` *)
RawKey(chatId, id) == chatId \o ":" \o id

RetainedKeys(store) ==
    {RawKey(flattenMessageStore(store)[i].chatId, flattenMessageStore(store)[i].id) :
        i \in 1..countMessages(store)}

(* The raw cache is a Map key -> envelope; of the envelope only its origin *)
(* is kept: "live" from an inbound event, "disk" rebuilt from the file.    *)
pruneRawMessageStore(raw, store) ==
    [k \in DOMAIN raw \cap RetainedKeys(store) |-> raw[k]]

RawSet(raw, key, origin) ==
    [k \in DOMAIN raw \cup {key} |-> IF k = key THEN origin ELSE raw[k]]

EmptyRaw == [k \in {} |-> "live"]

(* toUnixSeconds of a finite number is that number; the id defaults; the *)
(* media member is there for a media message only                        *)
StoredMessageOf(msg) ==
    [id |-> IF msg.id = None THEN "unknown" ELSE msg.id,
     chatId |-> msg.remoteJid,
     timestamp |-> msg.messageTimestamp,
     media |-> msg.media]

(* JSON.stringify of an array of objects: a member whose value is undefined *)
(* is left out                                                              *)
OptionalMembers == {"media"}
Defined(object) ==
    {k \in DOMAIN object : ~(k \in OptionalMembers /\ object[k] = None)}

(* variant: optional members never written *)
JSON_stringify_Lossy(array) ==
    [i \in 1..Len(array) |-> [k \in DOMAIN array[i] \ OptionalMembers |-> array[i][k]]]

JSON_stringify(array) ==
    [i \in 1..Len(array) |-> [k \in Defined(array[i]) |-> array[i][k]]]

(* an object parsed from the file read as a StoredMessage: a member that *)
(* is not there reads as undefined                                       *)
AsStoredMessage(entry) ==
    [id |-> entry.id, chatId |-> entry.chatId, timestamp |-> entry.timestamp,
     media |-> IF "media" \in DOMAIN entry THEN entry.media ELSE None]

(* JSON.parse of the file, entries read as StoredMessage *)
ParseMessages(data) == [i \in 1..Len(data) |-> AsStoredMessage(data[i])]

(* addToMessageStore, up to the call of pruneMessageStore *)
PushMessage(store, msg) ==
    StoreSet(store, msg.remoteJid,
             Append(StoreGet(store, msg.remoteJid), StoredMessageOf(msg)))

addToMessageStore_store(store, msg) == pruneMessageStore(PushMessage(store, msg))

addToMessageStore_raw(store, raw, msg) ==
    pruneRawMessageStore(
        RawSet(raw, RawKey(msg.remoteJid, StoredMessageOf(msg).id), "live"),
        addToMessageStore_store(store, msg))

----------------------------------------------------------------------------
(* message-store.json: [exists, data], data the flat array last renamed    *)
(* into place.                                                             *)

NoFile == [exists |-> FALSE, data |-> <<>>]

(* loadMessageStore's loop: group by chat identifier, in array order *)
GroupEntries(store, data) == Regroup(store, data)

(* variant: the entries grouped and left as they are *)
loadMessageStore_Unpruned(persist, file, store) ==
    IF ~persist \/ ~file.exists THEN store
    ELSE GroupEntries(store, ParseMessages(file.data))

(* loadMessageStore: nothing without persistence or without the file *)
loadMessageStore_store(persist, file, store) ==
    IF ~persist \/ ~file.exists THEN store
    ELSE pruneMessageStore(GroupEntries(store, ParseMessages(file.data)))

loadMessageStore_raw(persist, file, store, raw) ==
    IF ~persist \/ ~file.exists THEN raw
    ELSE pruneRawMessageStore(raw, loadMessageStore_store(persist, file, store))

(* loadRawMessageStore: every entry of the file whose key is not cached *)
RECURSIVE LoadRawEntries(_, _)
LoadRawEntries(raw, data) ==
    IF data = <<>> THEN raw
    ELSE LoadRawEntries(
            IF RawKey(data[1].chatId, data[1].id) \in DOMAIN raw THEN raw
            ELSE RawSet(raw, RawKey(data[1].chatId, data[1].id), "disk"),
            Tail(data))

(* variant: the cached entries replaced by the file's *)
loadRawMessageStore_Overwrite(persist, file, raw) ==
    IF ~persist \/ ~file.exists THEN raw
    ELSE LoadRawEntries([k \in {} |-> "live"], file.data)

loadRawMessageStore(persist, file, raw) ==
    IF ~persist \/ ~file.exists THEN raw
    ELSE LoadRawEntries(raw, file.data)

----------------------------------------------------------------------------
(* The chat directory: a Map id -> {id, name, isGroup, conversationTimestamp}, *)
(* kept as the sequence of its values in insertion order.                      *)

GroupJids == {"g@g.us"}                      \* jid.endsWith("@g.us")
IsGroupJid(jid) == jid \in GroupJids

(* jid.split("@")[0] *)
LocalPart(jid) ==
    CASE jid = "a@s.whatsapp.net" -> "a"
      [] jid = "b@s.whatsapp.net" -> "b"
      [] jid = "g@g.us" -> "g"
      [] OTHER -> jid

RECURSIVE IndexOfId(_, _)
IndexOfId(chats, id) ==
    IF chats = <<>> THEN 0
    ELSE IF IndexOfId(SubSeq(chats, 1, Len(chats) - 1), id) # 0
         THEN IndexOfId(SubSeq(chats, 1, Len(chats) - 1), id)
         ELSE IF chats[Len(chats)].id = id THEN Len(chats) ELSE 0

ChatHas(chats, id) == IndexOfId(chats, id) # 0
ChatGet(chats, id) == chats[IndexOfId(chats, id)]
ChatSet(chats, id, entry) ==
    IF ChatHas(chats, id) THEN [chats EXCEPT ![IndexOfId(chats, id)] = entry]
    ELSE Append(chats, entry)

NoChatFile == [exists |-> FALSE, data |-> <<>>]

(* loadChatStore *)
RECURSIVE LoadChatEntries(_, _)
LoadChatEntries(chats, data) ==
    IF data = <<>> THEN chats
    ELSE LoadChatEntries(ChatSet(chats, data[1].id, data[1]), Tail(data))

loadChatStore(file, chats) ==
    IF ~file.exists THEN chats ELSE LoadChatEntries(chats, file.data)

(* variant: a new record named after the sender whatever the chat is *)
UpsertCreated_BySender(chats, msg) ==
    IF ChatHas(chats, msg.remoteJid) THEN chats
    ELSE ChatSet(chats, msg.remoteJid,
            [id |-> msg.remoteJid,
             name |-> IF msg.pushName = None
                      THEN LocalPart(msg.remoteJid) ELSE msg.pushName,
             isGroup |-> IsGroupJid(msg.remoteJid),
             conversationTimestamp |-> 0])

(* messages.upsert handler, the chat directory lines, for one message *)
UpsertCreated(chats, msg) ==
    IF ChatHas(chats, msg.remoteJid) THEN chats
    ELSE ChatSet(chats, msg.remoteJid,
            [id |-> msg.remoteJid,
             name |-> IF IsGroupJid(msg.remoteJid) \/ msg.pushName = None
                      THEN LocalPart(msg.remoteJid) ELSE msg.pushName,
             isGroup |-> IsGroupJid(msg.remoteJid),
             conversationTimestamp |-> 0])

UpsertPromotes(chats, msg) ==
    /\ ~IsGroupJid(msg.remoteJid)
    /\ msg.pushName # None
    /\ ChatGet(UpsertCreated(chats, msg), msg.remoteJid).name = LocalPart(msg.remoteJid)

UpsertChat(chats, msg, t) ==
    ChatSet(UpsertCreated(chats, msg), msg.remoteJid,
        [ChatGet(UpsertCreated(chats, msg), msg.remoteJid) EXCEPT
            !.conversationTimestamp = t,
            !.name = IF UpsertPromotes(chats, msg) THEN msg.pushName ELSE @])

UpsertChanged(chats, msg) ==
    ~ChatHas(chats, msg.remoteJid) \/ UpsertPromotes(chats, msg)

(* maybeUpdateGroupSubject, up to the lookup it starts *)
StartsLookup(sock, inFlight, chats, groupJid) ==
    /\ sock # 0
    /\ groupJid \notin inFlight
    /\ ~(ChatHas(chats, groupJid)
          /\ ChatGet(chats, groupJid).name # LocalPart(groupJid))

----------------------------------------------------------------------------
(* The connection state machine *)

Gens == 1..MaxGen
Delays == {ReconnectDelay, ConflictDelay}

Disconnected == [connected |-> FALSE, qrCode |-> None, phoneNumber |-> None, error |-> None]
QrStatus(qr) == [Disconnected EXCEPT !.qrCode = qr]
ErrorStatus(e) == [Disconnected EXCEPT !.error = e]
ConnectedStatus(phone) == [Disconnected EXCEPT !.connected = TRUE, !.phoneNumber = phone]

ConflictError == "Connection conflict. Restart to reconnect."
LoggedOutError == "Logged out from WhatsApp. Delete auth directory and re-scan QR code."
ConnectError == "connect failed"

(* get isConnected *)
isConnected == status.connected /\ socket # 0

(* variant: operations run without the connection check *)
ensureConnected_NoCheck == TRUE

(* ensureConnected returns the socket rather than throwing *)
ensureConnected == ~(socket = 0 \/ ~isConnected)

(* the subscriber main registers with onConnection; the process was not *)
(* started to pair and exit                                             *)
OnConnection(st, raw) ==
    IF st.connected THEN loadRawMessageStore(persistMessages, messageFile, raw)
    ELSE raw

(* variant: nothing stored, no subscriber run *)
notifyConnection_Silent(st, raw) == UNCHANGED <<status, rawMessageByKey>>

(* notifyConnection *)
notifyConnection(st, raw) ==
    /\ status' = st
    /\ rawMessageByKey' = OnConnection(st, raw)

(* The record kept of the handler that ran last: what it was (op, the    *)
(* generation of its socket, the close code), what it did (notified: it  *)
(* called notifyConnection; armed: it armed a reconnect timer; called:   *)
(* it called connect(); result), and two facts about the run so far:     *)
(* run, the number of conflict closes in a row that the current          *)
(* generation has handled (counted up to MaxConflicts), and terminal,    *)
(* whether a terminal failure was published since connect() was last     *)
(* called from outside.  closed is the set of generations whose socket   *)
(* has closed since it last opened; conflicts and retries count, since   *)
(* the counter was last reset by a stabilization timer, the conflict     *)
(* closes handled for the generation then current and the reconnect      *)
(* timers they armed (both counted up to MaxConflicts).                  *)
OpRec(op, gen, code, notified, armed, called, result) ==
    [op |-> op, gen |-> gen, code |-> code, notified |-> notified,
     armed |-> armed, called |-> called, result |-> result,
     args |-> <<>>, ret |-> <<>>,
     run |-> IF op = "close" /\ result # "stale"
             THEN IF code = ConflictCode
                  THEN (IF lastOp.run < MaxConflicts THEN lastOp.run + 1
                        ELSE lastOp.run)
                  ELSE 0
             ELSE IF op \in {"established", "connectFailed"} /\ gen # socketGeneration
             THEN 0
             ELSE lastOp.run,
     terminal |-> IF result \in {"conflictStop", "loggedOut"} THEN TRUE
                  ELSE IF op = "connect" THEN FALSE
                  ELSE lastOp.terminal,
     closed |-> IF op = "close" THEN lastOp.closed \cup {gen}
                ELSE IF op = "open" THEN lastOp.closed \ {gen}
                ELSE lastOp.closed,
     conflicts |-> IF op = "stabilizeTimer" /\ result = "reset" THEN 0
                   ELSE IF op = "close" /\ code = ConflictCode /\ result # "stale"
                   THEN (IF lastOp.conflicts < MaxConflicts THEN lastOp.conflicts + 1
                         ELSE lastOp.conflicts)
                   ELSE lastOp.conflicts,
     retries |-> IF op = "stabilizeTimer" /\ result = "reset" THEN 0
                 ELSE IF op = "close" /\ code = ConflictCode /\ armed
                 THEN (IF lastOp.retries < MaxConflicts THEN lastOp.retries + 1
                       ELSE lastOp.retries)
                 ELSE lastOp.retries]

BagCount(bag) ==
    LET RECURSIVE Sum(_)
        Sum(S) == IF S = {} THEN 0
                  ELSE LET x == CHOOSE y \in S : TRUE IN bag[x] + Sum(S \ {x})
    IN Sum(DOMAIN bag)

(* connect(), from the call to its suspension in useMultiFileAuthState: the *)
(* stores are loaded when they are empty                                    *)
ConnectCalled ==
    /\ connecting' = connecting + 1
    /\ chatStore' = IF chatStore = <<>> THEN loadChatStore(chatFile, chatStore)
                    ELSE chatStore
    /\ messageStore' =
          IF messageStore = <<>>
          THEN loadMessageStore_store(persistMessages, messageFile, messageStore)
          ELSE messageStore
    /\ rawMessageByKey' =
          IF messageStore = <<>>
          THEN loadMessageStore_raw(persistMessages, messageFile, messageStore,
                                    rawMessageByKey)
          ELSE rawMessageByKey

(* connect() called from outside the class (main, or any holder of the *)
(* client), while fewer than cap generations are allocated or awaited  *)
ExternalConnectUpTo(cap) ==
    /\ socketGeneration + connecting < cap
    /\ ConnectCalled
    /\ lastOp' = OpRec("connect", 0, 0, FALSE, FALSE, TRUE, "pending")
    /\ UNCHANGED <<socketGeneration, socket, sockets, status, reconnectCount440,
                   qrDisplayed, reconnectTimers, stabilizeTimers, loggingOut,
                   persistMessages, now, groupMetadataInFlight, groupLookups, groupFetches,
                   chatPersistVars, persistVars>>

ExternalConnect == ExternalConnectUpTo(MaxGen)

(* variant: the generation counter left where it was *)
NextGeneration_Reused(gen) == gen

(* ++this.socketGeneration *)
NextGeneration(gen) == gen + 1

(* connect() resumes: the generation is allocated and the socket built, *)
(* while fewer than cap generations are allocated                       *)
ConnectEstablishUpTo(cap) ==
    /\ connecting > 0
    /\ socketGeneration < cap
    /\ connecting' = connecting - 1
    /\ socketGeneration' = NextGeneration(socketGeneration)
    /\ socket' = socketGeneration'
    /\ sockets' = sockets \cup {socketGeneration'}
    /\ lastOp' = OpRec("established", socketGeneration', 0, FALSE, FALSE, FALSE, "ok")
    /\ UNCHANGED <<status, reconnectCount440, qrDisplayed, reconnectTimers,
                   stabilizeTimers, loggingOut, persistMessages, now, chatVars,
                   chatPersistVars, storeVars, persistVars>>

ConnectEstablish == ConnectEstablishUpTo(MaxGen)

(* connect() throws: before the generation is allocated ("auth") or in *)
(* makeWASocket, after it ("socket"); the catch block publishes it     *)
ConnectFail(stage) ==
    /\ connecting > 0
    /\ stage = "socket" => socketGeneration < MaxGen
    /\ connecting' = connecting - 1
    /\ socketGeneration' = IF stage = "socket" THEN NextGeneration(socketGeneration)
                           ELSE socketGeneration
    /\ notifyConnection(ErrorStatus(ConnectError), rawMessageByKey)
    /\ lastOp' = [OpRec("connectFailed", socketGeneration', 0, TRUE, FALSE, FALSE,
                        "thrown") EXCEPT !.args = <<stage>>]
    /\ UNCHANGED <<socket, sockets, reconnectCount440, qrDisplayed, reconnectTimers,
                   stabilizeTimers, loggingOut, persistMessages, now, chatVars,
                   chatPersistVars, messageStore, persistVars>>

(* connection.update handlers of the socket built under generation g *)

(* variant: the close handler without its generation check *)
IsStale_NoGuard(g) == FALSE

(* generation !== this.socketGeneration *)
IsStale(g) == g # socketGeneration

(* variant: every close taken as retryable *)
shouldReconnect_Always(code) == TRUE

(* statusCode !== DisconnectReason.loggedOut *)
shouldReconnect(code) == code # LoggedOutCode

(* variant: one more conflict close let through *)
TooManyConflicts_Lenient(count) == count > ConflictThreshold + 1

(* this.reconnectCount440 > 2, after the increment *)
TooManyConflicts(count) == count > ConflictThreshold

(* variant: one delay for every reason *)
DelayFor_Flat(code) == ReconnectDelay

DelayFor(code) == IF code = ConflictCode THEN ConflictDelay ELSE ReconnectDelay

AddTimer(bag, k) == [bag EXCEPT ![k] = @ + 1]
RemoveTimer(bag, k) == [bag EXCEPT ![k] = @ - 1]

(* update.qr is set *)
QrEvent(g) ==
    /\ g \in sockets
    /\ notifyConnection(QrStatus("qr"), rawMessageByKey)
    /\ qrDisplayed' = TRUE
    /\ lastOp' = OpRec("qr", g, 0, TRUE, FALSE, FALSE, "ok")
    /\ UNCHANGED <<socketGeneration, socket, sockets, reconnectCount440,
                   reconnectTimers, stabilizeTimers, connecting, loggingOut,
                   persistMessages, now, chatVars, chatPersistVars, messageStore,
                   persistVars>>

(* update.connection === "close" with lastDisconnect's status code *)
CloseEvent(g, code) ==
    /\ g \in sockets
    /\ IF IsStale(g)
       THEN /\ lastOp' = OpRec("close", g, code, FALSE, FALSE, FALSE, "stale")
            /\ UNCHANGED <<status, rawMessageByKey, reconnectCount440, qrDisplayed,
                           reconnectTimers>>
       ELSE IF shouldReconnect(code)
       THEN IF code = ConflictCode /\ TooManyConflicts(reconnectCount440 + 1)
            THEN /\ reconnectCount440 < MaxConflicts
                 /\ reconnectCount440' = reconnectCount440 + 1
                 /\ notifyConnection(ErrorStatus(ConflictError), rawMessageByKey)
                 /\ lastOp' = OpRec("close", g, code, TRUE, FALSE, FALSE, "conflictStop")
                 /\ UNCHANGED <<qrDisplayed, reconnectTimers>>
            ELSE /\ BagCount(reconnectTimers) < MaxTimers
                 /\ reconnectCount440' = IF code = ConflictCode
                                         THEN reconnectCount440 + 1
                                         ELSE reconnectCount440
                 /\ qrDisplayed' = FALSE
                 /\ reconnectTimers' = AddTimer(reconnectTimers, <<g, DelayFor(code)>>)
                 /\ lastOp' = OpRec("close", g, code, FALSE, TRUE, FALSE, "reconnect")
                 /\ UNCHANGED <<status, rawMessageByKey>>
       ELSE /\ notifyConnection(ErrorStatus(LoggedOutError), rawMessageByKey)
            /\ lastOp' = OpRec("close", g, code, TRUE, FALSE, FALSE, "loggedOut")
            /\ UNCHANGED <<reconnectCount440, qrDisplayed, reconnectTimers>>
    /\ UNCHANGED <<socketGeneration, socket, sockets, stabilizeTimers, connecting,
                   loggingOut, persistMessages, now, chatVars, chatPersistVars,
                   messageStore, persistVars>>

(* this.socket?.user?.id?.split(":")[0] || "unknown": the socket held is *)
(* the account's                                                        *)
PhoneNumber == IF socket = 0 THEN "unknown" ELSE "4915123456789"

(* update.connection === "open" *)
OpenEvent(g) ==
    /\ g \in sockets
    /\ BagCount(stabilizeTimers) < MaxTimers
    /\ qrDisplayed' = FALSE
    /\ stabilizeTimers' = AddTimer(stabilizeTimers, g)
    /\ notifyConnection(ConnectedStatus(PhoneNumber), rawMessageByKey)
    /\ lastOp' = OpRec("open", g, 0, TRUE, FALSE, FALSE, "ok")
    /\ UNCHANGED <<socketGeneration, socket, sockets, reconnectCount440,
                   reconnectTimers, connecting, loggingOut, persistMessages, now,
                   chatVars, chatPersistVars, messageStore, persistVars>>

(* the reconnect timer armed by a close of generation g fires; connect() *)
(* is called while fewer than cap generations are allocated or awaited   *)
ReconnectTimerFiresUpTo(g, delay, cap) ==
    /\ reconnectTimers[<<g, delay>>] > 0
    /\ reconnectTimers' = RemoveTimer(reconnectTimers, <<g, delay>>)
    /\ IF g = socketGeneration
       THEN /\ socketGeneration + connecting < cap
            /\ ConnectCalled
            /\ lastOp' = OpRec("reconnectTimer", g, 0, FALSE, FALSE, TRUE, "connect")
       ELSE /\ lastOp' = OpRec("reconnectTimer", g, 0, FALSE, FALSE, FALSE, "stale")
            /\ UNCHANGED <<connecting, chatStore, messageStore, rawMessageByKey>>
    /\ UNCHANGED <<socketGeneration, socket, sockets, status, reconnectCount440,
                   qrDisplayed, stabilizeTimers, loggingOut, persistMessages, now,
                   groupMetadataInFlight, groupLookups, groupFetches, chatPersistVars, persistVars>>

ReconnectTimerFires(g, delay) == ReconnectTimerFiresUpTo(g, delay, MaxGen)

(* the 30 s timer armed by an open of generation g fires *)
StabilizeTimerFires(g) ==
    /\ stabilizeTimers[g] > 0
    /\ stabilizeTimers' = RemoveTimer(stabilizeTimers, g)
    /\ IF isConnected /\ g = socketGeneration
       THEN /\ reconnectCount440' = 0
            /\ lastOp' = OpRec("stabilizeTimer", g, 0, FALSE, FALSE, FALSE, "reset")
       ELSE /\ lastOp' = OpRec("stabilizeTimer", g, 0, FALSE, FALSE, FALSE, "skipped")
            /\ UNCHANGED reconnectCount440
    /\ UNCHANGED <<socketGeneration, socket, sockets, status, qrDisplayed,
                   reconnectTimers, connecting, loggingOut, persistMessages, now,
                   chatVars, chatPersistVars, storeVars, persistVars>>

(* disconnect(): with a socket, suspends in logout(); without, returns *)
DisconnectCall ==
    /\ IF socket # 0
       THEN /\ loggingOut < MaxLogouts
            /\ loggingOut' = loggingOut + 1
            /\ lastOp' = OpRec("disconnect", socket, 0, FALSE, FALSE, FALSE, "pending")
       ELSE /\ lastOp' = OpRec("disconnect", 0, 0, FALSE, FALSE, FALSE, "noop")
            /\ UNCHANGED loggingOut
    /\ UNCHANGED <<socketGeneration, socket, sockets, status, reconnectCount440,
                   qrDisplayed, reconnectTimers, stabilizeTimers, connecting,
                   persistMessages, now, chatVars, chatPersistVars, storeVars,
                   persistVars>>

(* logout() resolved: the socket reference is cleared, the snapshot published *)
DisconnectDone ==
    /\ loggingOut > 0
    /\ loggingOut' = loggingOut - 1
    /\ socket' = 0
    /\ notifyConnection(Disconnected, rawMessageByKey)
    /\ lastOp' = OpRec("disconnected", 0, 0, TRUE, FALSE, FALSE, "ok")
    /\ UNCHANGED <<socketGeneration, sockets, reconnectCount440, qrDisplayed,
                   reconnectTimers, stabilizeTimers, connecting, persistMessages,
                   now, chatVars, chatPersistVars, messageStore, persistVars>>

(* logout() rejected: disconnect() throws, nothing is cleared *)
DisconnectFail ==
    /\ loggingOut > 0
    /\ loggingOut' = loggingOut - 1
    /\ lastOp' = OpRec("disconnected", socket, 0, FALSE, FALSE, FALSE, "thrown")
    /\ UNCHANGED <<socketGeneration, socket, sockets, status, reconnectCount440,
                   qrDisplayed, reconnectTimers, stabilizeTimers, connecting,
                   persistMessages, now, chatVars, chatPersistVars, storeVars,
                   persistVars>>

----------------------------------------------------------------------------
(* Inbound messages and the group subject lookup *)

(* variant: a timer armed by every call *)
scheduleSaveChatStore_Unguarded(timer) == IF timer < 2 THEN timer + 1 ELSE timer

(* scheduleSaveChatStore: if (this.saveChatStoreTimer) return; else arm *)
scheduleSaveChatStore(timer) == IF timer > 0 THEN timer ELSE timer + 1

(* variant: the timer armed whatever the configuration *)
scheduleSaveMessageStore_Ungated(persist, timer) ==
    IF timer > 0 THEN timer ELSE timer + 1

(* scheduleSaveMessageStore: nothing without persistence or with a timer armed *)
scheduleSaveMessageStore(persist, timer) ==
    IF ~persist THEN timer
    ELSE IF timer > 0 THEN timer ELSE timer + 1

(* a write chained on the in-flight promise: its payload, serialized when *)
(* save...Async was called, and whether its callback has begun            *)
QueuedWrite(payload) == [payload |-> payload, started |-> FALSE]

(* variant: a write that does not wait for the one before it *)
CanStart_Unchained(writes, i) == ~writes[i].started

(* inFlight.catch(...).then(write): the callback of a write runs once the *)
(* promise of the write chained before it has settled                     *)
CanStart(writes, i) == i = 1 /\ ~writes[i].started

RemoveAt(writes, i) == SubSeq(writes, 1, i - 1) \o SubSeq(writes, i + 1, Len(writes))

(* variant: a failed write rejects the chain and the later callbacks never run *)
AfterSettle_Rejected(writes, i, ok) == IF ok THEN RemoveAt(writes, i) ELSE <<>>

(* the write's own try/catch and the chain's .catch(() => {}): the promise *)
(* settles either way and the later writes stay chained                     *)
AfterSettle(writes, i, ok) == RemoveAt(writes, i)

(* messages.upsert handler for one envelope that has a remoteJid other than *)
(* status@broadcast (any other envelope is skipped and changes nothing)     *)
UpsertEvent(g, msg) ==
    /\ g \in sockets
    /\ chatStore' = UpsertChat(chatStore, msg, now)
    /\ groupMetadataInFlight' =
          IF IsGroupJid(msg.remoteJid)
             /\ StartsLookup(socket, groupMetadataInFlight, chatStore', msg.remoteJid)
          THEN groupMetadataInFlight \cup {msg.remoteJid}
          ELSE groupMetadataInFlight
    /\ IF IsGroupJid(msg.remoteJid)
          /\ StartsLookup(socket, groupMetadataInFlight, chatStore', msg.remoteJid)
       THEN /\ groupLookups[msg.remoteJid] < MaxLookups
            /\ groupLookups' = [groupLookups EXCEPT ![msg.remoteJid] = @ + 1]
       ELSE UNCHANGED groupLookups
    /\ messageStore' = addToMessageStore_store(messageStore, msg)
    /\ rawMessageByKey' = addToMessageStore_raw(messageStore, rawMessageByKey, msg)
    /\ saveMessageStoreTimer' =
          scheduleSaveMessageStore(persistMessages, saveMessageStoreTimer)
    /\ saveChatStoreTimer' = IF UpsertChanged(chatStore, msg)
                             THEN scheduleSaveChatStore(saveChatStoreTimer)
                             ELSE saveChatStoreTimer
    /\ lastOp' = [OpRec("upsert", g, 0, FALSE, FALSE, FALSE, "ok") EXCEPT
                    !.args = <<msg>>]
    /\ UNCHANGED <<connVars, persistMessages, now, groupFetches, chatWrites,
                   chatFile, messageWrites, messageFile>>

(* contacts.upsert handler, for one contact *)
BroadcastJids == {"list@broadcast"}               \* id.endsWith("@broadcast")

(* contact.notify || contact.name || contact.verifiedName || id.split("@")[0] *)
ContactName(contact) ==
    IF contact.notify # None THEN contact.notify
    ELSE IF contact.name # None THEN contact.name
    ELSE IF contact.verifiedName # None THEN contact.verifiedName
    ELSE LocalPart(contact.id)

(* variant: groups and broadcast lists not skipped *)
ContactSkipped_None(contact) == contact.id = None

(* !contact.id, id.endsWith("@g.us") || id.endsWith("@broadcast") *)
ContactSkipped(contact) ==
    contact.id = None \/ IsGroupJid(contact.id) \/ contact.id \in BroadcastJids

ContactStored(chats, contact) ==
    IF ChatHas(chats, contact.id)
    THEN ChatSet(chats, contact.id,
                 [ChatGet(chats, contact.id) EXCEPT !.name = ContactName(contact)])
    ELSE ChatSet(chats, contact.id,
                 [id |-> contact.id, name |-> ContactName(contact),
                  isGroup |-> FALSE, conversationTimestamp |-> 0])

ContactsUpsert(g, contact) ==
    /\ g \in sockets
    /\ IF ContactSkipped(contact)
       THEN /\ UNCHANGED <<chatStore, saveChatStoreTimer>>
            /\ lastOp' = [OpRec("contacts", g, 0, FALSE, FALSE, FALSE, "skipped")
                            EXCEPT !.args = <<contact>>]
       ELSE /\ chatStore' = ContactStored(chatStore, contact)
            /\ saveChatStoreTimer' = scheduleSaveChatStore(saveChatStoreTimer)
            /\ lastOp' = [OpRec("contacts", g, 0, FALSE, FALSE, FALSE, "ok")
                            EXCEPT !.args = <<contact>>]
    /\ UNCHANGED <<connVars, persistMessages, now, groupMetadataInFlight,
                   groupLookups, groupFetches, chatWrites, chatFile, storeVars,
                   persistVars>>

GroupSubjects == {"Team"}

(* sock.groupMetadata answers while its race with the 2 s timeout is open: *)
(* subject is the subject fetched, or None when the request was rejected  *)
(* or the metadata had none                                               *)
GroupLookupSettles(groupJid, subject) ==
    /\ groupJid \in groupMetadataInFlight
    /\ groupLookups[groupJid] > 0
    /\ groupLookups' = [groupLookups EXCEPT ![groupJid] = @ - 1]
    /\ groupMetadataInFlight' = groupMetadataInFlight \ {groupJid}
    /\ IF subject # None /\ ChatHas(chatStore, groupJid)
          /\ ChatGet(chatStore, groupJid).name # subject
       THEN /\ chatStore' = ChatSet(chatStore, groupJid,
                                [ChatGet(chatStore, groupJid) EXCEPT !.name = subject])
            /\ saveChatStoreTimer' = scheduleSaveChatStore(saveChatStoreTimer)
       ELSE UNCHANGED <<chatStore, saveChatStoreTimer>>
    /\ lastOp' = [OpRec("groupLookup", 0, 0, FALSE, FALSE, FALSE,
                        IF subject = None THEN "failed" ELSE "ok")
                    EXCEPT !.args = <<groupJid, subject>>]
    /\ UNCHANGED <<connVars, persistMessages, now, groupFetches, chatWrites,
                   chatFile, storeVars, persistVars>>

(* variant: the timeout settles the race and the group stays in the set *)
GroupLookupTimesOut_Kept(groupJid) ==
    /\ groupJid \in groupMetadataInFlight
    /\ lastOp.op # "groupLookupTimeout"
    /\ lastOp' = [OpRec("groupLookupTimeout", 0, 0, FALSE, FALSE, FALSE, "failed")
                    EXCEPT !.args = <<groupJid>>]
    /\ UNCHANGED <<connVars, persistMessages, now, chatVars, chatPersistVars,
                   storeVars, persistVars>>

(* the 2 s timeout wins the race: the race is rejected and the group leaves *)
(* the in-flight set; the request sent to the transport is not cancelled    *)
GroupLookupTimesOut(groupJid) ==
    /\ groupJid \in groupMetadataInFlight
    /\ groupMetadataInFlight' = groupMetadataInFlight \ {groupJid}
    /\ lastOp' = [OpRec("groupLookupTimeout", 0, 0, FALSE, FALSE, FALSE, "failed")
                    EXCEPT !.args = <<groupJid>>]
    /\ UNCHANGED <<connVars, persistMessages, now, chatStore, groupLookups,
                   groupFetches, chatPersistVars, storeVars, persistVars>>

(* a request whose race the timeout has settled is answered: the answer is *)
(* dropped                                                                 *)
GroupLookupAnsweredLate(groupJid) ==
    /\ groupLookups[groupJid] > (IF groupJid \in groupMetadataInFlight THEN 1 ELSE 0)
    /\ groupLookups' = [groupLookups EXCEPT ![groupJid] = @ - 1]
    /\ lastOp' = [OpRec("groupLookupLate", 0, 0, FALSE, FALSE, FALSE, "ignored")
                    EXCEPT !.args = <<groupJid>>]
    /\ UNCHANGED <<connVars, persistMessages, now, chatStore, groupMetadataInFlight,
                   groupFetches, chatPersistVars, storeVars, persistVars>>

----------------------------------------------------------------------------
(* Debounced persistence *)

(* the 250 ms chat store timer fires: saveChatStoreAsync serializes the *)
(* directory and chains the write                                       *)
SaveChatStoreTimerFires ==
    /\ saveChatStoreTimer > 0
    /\ Len(chatWrites) < MaxWrites
    /\ saveChatStoreTimer' = saveChatStoreTimer - 1
    /\ chatWrites' = Append(chatWrites, QueuedWrite(JSON_stringify(chatStore)))
    /\ lastOp' = OpRec("saveChatStoreTimer", 0, 0, FALSE, FALSE, FALSE, "ok")
    /\ UNCHANGED <<connVars, persistMessages, now, chatVars, chatFile, storeVars,
                   persistVars>>

(* the callback of a chained chat store write begins: mkdir, writeFile *)
ChatWriteStarts(i) ==
    /\ i \in 1..Len(chatWrites)
    /\ CanStart(chatWrites, i)
    /\ chatWrites' = [chatWrites EXCEPT ![i].started = TRUE]
    /\ lastOp' = [OpRec("chatWriteStart", 0, 0, FALSE, FALSE, FALSE, "ok") EXCEPT
                    !.args = <<i>>]
    /\ UNCHANGED <<connVars, persistMessages, now, chatVars, saveChatStoreTimer,
                   chatFile, storeVars, persistVars>>

(* a chat store write that has begun ends: renamed into place, or failed *)
(* and caught                                                            *)
ChatWriteSettles(i, ok) ==
    /\ i \in 1..Len(chatWrites)
    /\ chatWrites[i].started
    /\ chatWrites' = AfterSettle(chatWrites, i, ok)
    /\ chatFile' = IF ok THEN [exists |-> TRUE, data |-> chatWrites[i].payload]
                   ELSE chatFile
    /\ lastOp' = [OpRec("chatWrite", 0, 0, FALSE, FALSE, FALSE,
                        IF ok THEN "ok" ELSE "failed") EXCEPT !.args = <<i>>]
    /\ UNCHANGED <<connVars, persistMessages, now, chatVars, saveChatStoreTimer,
                   storeVars, persistVars>>

(* the 500 ms message store timer fires: saveMessageStoreAsync *)
SaveMessageStoreTimerFires ==
    /\ saveMessageStoreTimer > 0
    /\ Len(messageWrites) < MaxWrites
    /\ saveMessageStoreTimer' = saveMessageStoreTimer - 1
    /\ messageWrites' =
          IF persistMessages
          THEN Append(messageWrites,
                      QueuedWrite(JSON_stringify(flattenMessageStore(messageStore))))
          ELSE messageWrites
    /\ lastOp' = OpRec("saveMessageStoreTimer", 0, 0, FALSE, FALSE, FALSE, "ok")
    /\ UNCHANGED <<connVars, persistMessages, now, chatVars, chatPersistVars,
                   storeVars, messageFile>>

MessageWriteStarts(i) ==
    /\ i \in 1..Len(messageWrites)
    /\ CanStart(messageWrites, i)
    /\ messageWrites' = [messageWrites EXCEPT ![i].started = TRUE]
    /\ lastOp' = [OpRec("messageWriteStart", 0, 0, FALSE, FALSE, FALSE, "ok") EXCEPT
                    !.args = <<i>>]
    /\ UNCHANGED <<connVars, persistMessages, now, chatVars, chatPersistVars,
                   storeVars, saveMessageStoreTimer, messageFile>>

MessageWriteSettles(i, ok) ==
    /\ i \in 1..Len(messageWrites)
    /\ messageWrites[i].started
    /\ messageWrites' = AfterSettle(messageWrites, i, ok)
    /\ messageFile' = IF ok
                      THEN [exists |-> TRUE, data |-> messageWrites[i].payload]
                      ELSE messageFile
    /\ lastOp' = [OpRec("messageWrite", 0, 0, FALSE, FALSE, FALSE,
                        IF ok THEN "ok" ELSE "failed") EXCEPT !.args = <<i>>]
    /\ UNCHANGED <<connVars, persistMessages, now, chatVars, chatPersistVars,
                   storeVars, saveMessageStoreTimer>>

----------------------------------------------------------------------------
(* The facade: the operations the tools call *)

allButLastOp == <<connVars, persistMessages, now, chatVars, chatPersistVars,
                  storeVars, persistVars>>

(* fetchLatestBaileysVersion() rejects: logged, connect() goes on with the *)
(* library's default version                                               *)
ConnectVersionFallback ==
    /\ connecting > 0
    /\ lastOp' = [OpRec("versionFetchFailed", 0, 0, FALSE, FALSE, FALSE, "ignored")
                    EXCEPT !.args = <<"version">>]
    /\ UNCHANGED allButLastOp

(* normalizeJid, on the chat identifiers a caller passes *)
JidInputs == ChatIds \cup {"whatsapp:g@g.us", "4915123456789"}
normalizeJid(input) ==
    CASE input = "whatsapp:g@g.us" -> "g@g.us"
      [] input = "4915123456789" -> "4915123456789@s.whatsapp.net"
      [] OTHER -> input

(* the status tool reads client.status *)
GetStatus ==
    /\ lastOp' = [OpRec("getStatus", 0, 0, FALSE, FALSE, FALSE, "ok") EXCEPT
                    !.ret = <<status>>]
    /\ UNCHANGED allButLastOp

(* sendMessage, sendFile, getGroupInfo: ensureConnected, then one call of *)
(* the transport, which answers or throws                                 *)
TransportOps == {"sendMessage", "sendFile", "getGroupInfo"}
TransportCall(op, answered) ==
    /\ lastOp' = OpRec(op, 0, 0, FALSE, FALSE, FALSE,
                       IF ~ensureConnected THEN "notConnected"
                       ELSE IF answered THEN "ok" ELSE "transportError")
    /\ ensureConnected \/ answered
    /\ UNCHANGED allButLastOp

(* downloadMedia, getMedia *)
MediaOps == {"downloadMedia", "getMedia"}
MediaCall(op, chatId, messageId, downloaded) ==
    /\ lastOp' = [OpRec(op, 0, 0, FALSE, FALSE, FALSE,
                        IF ~ensureConnected THEN "notConnected"
                        ELSE IF RawKey(normalizeJid(chatId), messageId)
                                \notin DOMAIN rawMessageByKey THEN "notFound"
                        ELSE IF downloaded THEN "ok" ELSE "downloadError")
                  EXCEPT !.args = <<chatId, messageId>>]
    /\ (ensureConnected
        /\ RawKey(normalizeJid(chatId), messageId) \in DOMAIN rawMessageByKey)
       \/ downloaded
    /\ UNCHANGED allButLastOp

(* sort((a, b) => (b.conversationTimestamp || 0) - (a.conversationTimestamp || 0)) *)
RECURSIVE InsertByActivity(_, _)
InsertByActivity(sorted, c) ==
    IF sorted = <<>> THEN <<c>>
    ELSE IF sorted[Len(sorted)].conversationTimestamp >= c.conversationTimestamp
         THEN Append(sorted, c)
         ELSE Append(InsertByActivity(SubSeq(sorted, 1, Len(sorted) - 1), c),
                     sorted[Len(sorted)])

RECURSIVE SortByActivity(_)
SortByActivity(chats) ==
    IF chats = <<>> THEN <<>>
    ELSE InsertByActivity(SortByActivity(SubSeq(chats, 1, Len(chats) - 1)),
                          chats[Len(chats)])

(* variant: the whole sorted directory *)
FirstN_All(list, n) == list

FirstN(list, n) == SubSeq(list, 1, IF Len(list) < n THEN Len(list) ELSE n)

(* allChats.map((chat) => ({ id, name: chat.name || chat.id.split("@")[0], *)
(* isGroup, unreadCount: 0 }))                                             *)
AsChats(list) ==
    [i \in 1..Len(list) |->
        [id |-> list[i].id,
         name |-> IF list[i].name = None THEN LocalPart(list[i].id) ELSE list[i].name,
         isGroup |-> list[i].isGroup,
         unreadCount |-> 0]]

(* getChats: from the directory, or, when it is empty, suspended in the *)
(* fallback                                                             *)
GetChats(limit) ==
    /\ IF ~ensureConnected
       THEN /\ lastOp' = OpRec("getChats", 0, 0, FALSE, FALSE, FALSE, "notConnected")
            /\ UNCHANGED groupFetches
       ELSE IF chatStore # <<>>
       THEN /\ lastOp' = [OpRec("getChats", 0, 0, FALSE, FALSE, FALSE, "ok") EXCEPT
                            !.args = <<limit>>,
                            !.ret = AsChats(FirstN(SortByActivity(chatStore), limit))]
            /\ UNCHANGED groupFetches
       ELSE /\ groupFetches' = groupFetches \cup {limit}
            /\ lastOp' = [OpRec("getChats", 0, 0, FALSE, FALSE, FALSE, "pending")
                          EXCEPT !.args = <<limit>>]
    /\ UNCHANGED <<connVars, persistMessages, now, chatStore, groupMetadataInFlight, groupLookups,
                   chatPersistVars, storeVars, persistVars>>

(* groupFetchAllParticipating answered with these groups (id, subject), or *)
(* the race was lost to the 10 s timeout or the call threw                 *)
RECURSIVE StoreFetched(_, _)
StoreFetched(chats, groups) ==
    IF groups = <<>> THEN chats
    ELSE StoreFetched(
            ChatSet(chats, groups[1].id,
                [id |-> groups[1].id,
                 name |-> IF groups[1].subject = None THEN LocalPart(groups[1].id)
                          ELSE groups[1].subject,
                 isGroup |-> TRUE,
                 conversationTimestamp |-> 0]),
            Tail(groups))

FetchedGroups == {<<>>} \cup
    {<<[id |-> j, subject |-> sub]>> : j \in GroupJids, sub \in GroupSubjects \cup {None}}

GetChatsFallbackSettles(limit, answered, groups) ==
    /\ limit \in groupFetches
    /\ groupFetches' = groupFetches \ {limit}
    /\ IF answered
       THEN /\ chatStore' = StoreFetched(chatStore, FirstN(groups, limit))
            /\ saveChatStoreTimer' = scheduleSaveChatStore(saveChatStoreTimer)
       ELSE UNCHANGED <<chatStore, saveChatStoreTimer>>
    /\ lastOp' = OpRec("getChatsFallback", 0, 0, FALSE, FALSE, FALSE,
                       IF answered THEN "ok" ELSE "failed")
    /\ UNCHANGED <<connVars, persistMessages, now, groupMetadataInFlight, groupLookups, chatWrites,
                   chatFile, storeVars, persistVars>>

(* chatStore.get(m.chatId)?.name || m.chatId.split("@")[0] *)
ChatNameOf(chats, chatId) ==
    IF ChatHas(chats, chatId) THEN ChatGet(chats, chatId).name ELSE LocalPart(chatId)

(* listMessages: chatId is None when the caller passed none *)
(* variant: the oldest limit entries instead of the newest *)
listMessages_Oldest(store, chats, chatId, limit) ==
    LET messages == IF chatId # None THEN StoreGet(store, normalizeJid(chatId))
                    ELSE flattenMessageStore(store)
        head == SubSeq(SortByTimestamp(messages), 1,
                       IF Len(messages) < limit THEN Len(messages) ELSE limit)
    IN [i \in 1..Len(head) |->
          [id |-> head[i].id, chatId |-> head[i].chatId,
           timestamp |-> head[i].timestamp, media |-> head[i].media,
           chatName |-> ChatNameOf(chats, head[i].chatId)]]

listMessages(store, chats, chatId, limit) ==
    LET messages == IF chatId # None THEN StoreGet(store, normalizeJid(chatId))
                    ELSE flattenMessageStore(store)
        tail == LastN(SortByTimestamp(messages), limit)
    IN [i \in 1..Len(tail) |->
          [id |-> tail[i].id, chatId |-> tail[i].chatId,
           timestamp |-> tail[i].timestamp, media |-> tail[i].media,
           chatName |-> ChatNameOf(chats, tail[i].chatId)]]

ListMessages(chatId, limit) ==
    /\ lastOp' = [OpRec("listMessages", 0, 0, FALSE, FALSE, FALSE, "ok") EXCEPT
                    !.args = <<chatId, limit>>,
                    !.ret = listMessages(messageStore, chatStore, chatId, limit)]
    /\ UNCHANGED allButLastOp

(* getContactName: the jid itself without a socket, else the directory's *)
(* name, else a name of the transport's contacts or "+" and the number   *)
GetContactName(jid, fromTransport) ==
    /\ lastOp' = [OpRec("getContactName", 0, 0, FALSE, FALSE, FALSE, "ok") EXCEPT
                    !.args = <<jid>>,
                    !.ret = <<IF socket = 0 THEN jid
                              ELSE IF ChatHas(chatStore, normalizeJid(jid))
                              THEN ChatGet(chatStore, normalizeJid(jid)).name
                              ELSE IF ChatHas(chatStore, jid)
                              THEN ChatGet(chatStore, jid).name
                              ELSE fromTransport>>]
    /\ UNCHANGED allButLastOp

----------------------------------------------------------------------------
(* The state after construction, with the configuration read from the *)
(* environment and the files a previous run left                      *)

InitFiles(persist, file, chats) ==
    /\ socketGeneration = 0
    /\ socket = 0
    /\ sockets = {}
    /\ status = Disconnected
    /\ reconnectCount440 = 0
    /\ qrDisplayed = FALSE
    /\ reconnectTimers = [k \in Gens \X Delays |-> 0]
    /\ stabilizeTimers = [g \in Gens |-> 0]
    /\ connecting = 0
    /\ loggingOut = 0
    /\ persistMessages = persist
    /\ now = 1
    /\ chatStore = <<>>
    /\ groupMetadataInFlight = {}
    /\ groupLookups = [g \in GroupJids |-> 0]
    /\ groupFetches = {}
    /\ saveChatStoreTimer = 0
    /\ chatWrites = <<>>
    /\ chatFile = chats
    /\ messageStore = <<>>
    /\ rawMessageByKey = EmptyRaw
    /\ saveMessageStoreTimer = 0
    /\ messageWrites = <<>>
    /\ messageFile = file
    /\ lastOp = [op |-> "init", gen |-> 0, code |-> 0, notified |-> FALSE,
                 armed |-> FALSE, called |-> FALSE, result |-> "ok",
                 args |-> <<>>, ret |-> <<>>, run |-> 0, terminal |-> FALSE,
                 closed |-> {}, conflicts |-> 0, retries |-> 0]

InitWith(persist, file) == InitFiles(persist, file, NoChatFile)

----------------------------------------------------------------------------
(* The connection state machine with its callers and its transport *)

InitConn == InitWith(FALSE, NoFile)

NextConn ==
    \/ ExternalConnect
    \/ ConnectEstablish
    \/ \E stage \in {"auth", "socket"} : ConnectFail(stage)
    \/ ConnectVersionFallback
    \/ \E g \in Gens : QrEvent(g)
    \/ \E g \in Gens, code \in StatusCodes : CloseEvent(g, code)
    \/ \E g \in Gens : OpenEvent(g)
    \/ \E g \in Gens, delay \in Delays : ReconnectTimerFires(g, delay)
    \/ \E g \in Gens : StabilizeTimerFires(g)

SpecConn == InitConn /\ [][NextConn]_vars

----------------------------------------------------------------------------
(* C1. Reconnect staleness: a close event delivered by a socket whose      *)
(* generation has been superseded arms no reconnect timer, calls no        *)
(* connect(), publishes no status, and leaves the status, the conflict     *)
(* counter and the generation as they were.                                *)
C1_StaleCloseIgnored ==
    [][(lastOp'.op = "close" /\ lastOp'.gen < socketGeneration)
        => /\ ~lastOp'.notified /\ ~lastOp'.armed /\ ~lastOp'.called
           /\ UNCHANGED <<status, reconnectCount440, socketGeneration,
                          reconnectTimers, connecting, socket, qrDisplayed>>]_vars

C1_Witness ==
    /\ lastOp.op = "close"
    /\ lastOp.gen \in sockets
    /\ lastOp.gen < socketGeneration

(* C2. Conflict-loop guard: the third conflict close in a row on one       *)
(* generation publishes the terminal conflict error, and after it no       *)
(* reconnect timer calls connect().                                        *)
C2_ConflictLoopStops ==
    /\ [](lastOp.op = "close" /\ lastOp.run >= ConflictThreshold + 1
            => status = ErrorStatus(ConflictError))
    /\ [][lastOp.run >= ConflictThreshold + 1
           => ~(lastOp'.op = "reconnectTimer" /\ lastOp'.called)]_vars

(* C3. A logged-out close of the current generation publishes              *)
(* connected=false with an error and arms no reconnect timer.              *)
C3_LoggedOutIsTerminal ==
    [][(lastOp'.op = "close" /\ lastOp'.code = LoggedOutCode
        /\ lastOp'.gen = socketGeneration)
        => /\ status'.connected = FALSE
           /\ status'.error # None
           /\ lastOp'.notified
           /\ ~lastOp'.armed
           /\ reconnectTimers' = reconnectTimers]_vars

C3_Witness ==
    /\ lastOp.op = "close"
    /\ lastOp.code = LoggedOutCode
    /\ lastOp.gen = socketGeneration

(* C4. Terminal failure is absorbing: once a terminal failure has been     *)
(* published, no connect() is started by a timer until connect() is called *)
(* from outside.                                                           *)
C4_TerminalAbsorbing ==
    [][lastOp.terminal => ~(lastOp'.op = "reconnectTimer" /\ lastOp'.called)]_vars

----------------------------------------------------------------------------
(* The facade under a session that connects, pairs, opens and is           *)
(* disconnected, with a few messages observed                              *)

FacadeEnvelopes ==
    [remoteJid : {"a@s.whatsapp.net"}, id : {"m1"}, messageTimestamp : {1},
     pushName : {None}, media : {None}]
FacadeJids == {"a@s.whatsapp.net", "4915123456789"}
ContactNames == {"+4915123456789"}

NextFacade ==
    \/ ExternalConnect
    \/ ConnectEstablish
    \/ \E g \in Gens : OpenEvent(g)
    \/ DisconnectCall
    \/ DisconnectDone
    \/ \E g \in Gens, msg \in FacadeEnvelopes : UpsertEvent(g, msg)
    \/ GetStatus
    \/ \E op \in TransportOps, answered \in BOOLEAN : TransportCall(op, answered)
    \/ \E op \in MediaOps, c \in FacadeJids, ok \in BOOLEAN :
          MediaCall(op, c, "m1", ok)
    \/ GetChats(1)
    \/ \E answered \in BOOLEAN, groups \in FetchedGroups :
          GetChatsFallbackSettles(1, answered, groups)
    \/ \E c \in FacadeJids \cup {None} : ListMessages(c, 1)
    \/ \E j \in FacadeJids, name \in ContactNames : GetContactName(j, name)

SpecFacade == InitConn /\ [][NextFacade]_vars

ConnectionOps == TransportOps \cup MediaOps \cup {"getChats"}
LocalOps == {"listMessages", "getContactName"}
stores == <<chatStore, messageStore, rawMessageByKey>>

(* C5 as stated: every facade operation other than getStatus fails with    *)
(* the not-connected error when the connection is not established.         *)
C5_AllOpsNeedConnection ==
    (lastOp.op \in ConnectionOps \cup LocalOps /\ ~isConnected)
        => lastOp.result = "notConnected"

(* C5 as amended: the operations that use the transport (getChats,         *)
(* sendMessage, sendFile, downloadMedia, getMedia, getGroupInfo) fail with *)
(* the not-connected error when the connection is not established and      *)
(* leave the stores unchanged; getStatus always succeeds with the current  *)
(* snapshot; listMessages and getContactName answer from local state       *)
(* without a connection and never fail.                                    *)
C5_ConnectionPrecondition ==
    [][/\ (lastOp'.op \in ConnectionOps /\ ~isConnected)
            => (lastOp'.result = "notConnected" /\ UNCHANGED stores)
       /\ lastOp'.op = "getStatus"
            => (lastOp'.result = "ok" /\ lastOp'.ret = <<status>> /\ UNCHANGED stores)
       /\ lastOp'.op \in LocalOps
            => (lastOp'.result = "ok" /\ UNCHANGED stores)]_vars

C5_Witness ==
    /\ lastOp.op \in ConnectionOps
    /\ ~isConnected
    /\ socket # 0
    /\ messageStore # <<>>

----------------------------------------------------------------------------
(* The message store under inbound messages, persistence disabled (the    *)
(* default)                                                                *)

StoreEnvelopes ==
    [remoteJid : {"a@s.whatsapp.net", "b@s.whatsapp.net"}, id : MessageIds,
     messageTimestamp : Timestamps, pushName : {None}, media : {None}]

NextStore ==
    \/ ExternalConnectUpTo(1)
    \/ ConnectEstablishUpTo(1)
    \/ \E g \in Gens, msg \in StoreEnvelopes : UpsertEvent(g, msg)
    \/ \E c \in {None, "a@s.whatsapp.net", "b@s.whatsapp.net"}, limit \in 1..MaxLimit :
          ListMessages(c, limit)

SpecStore == InitConn /\ [][NextStore]_vars

(* Multisets of stored messages, as sequences *)
Occurrences(list, m) == Cardinality({i \in 1..Len(list) : list[i] = m})
Elements(list) == {list[i] : i \in 1..Len(list)}
SubBag(small, big) ==
    \A m \in Elements(small) : Occurrences(small, m) <= Occurrences(big, m)
(* kept holds n of all, and nothing left out is newer than anything kept *)
NewestOf(kept, all, n) ==
    /\ Len(kept) = (IF Len(all) < n THEN Len(all) ELSE n)
    /\ SubBag(kept, all)
    /\ \A d \in Elements(all) :
          Occurrences(kept, d) < Occurrences(all, d)
            => \A k \in Elements(kept) : d.timestamp <= k.timestamp

(* C6. Retention caps: after every append, every chat's list is within the *)
(* per-chat cap and the total is within the global cap.                    *)
C6_RetentionCaps ==
    /\ \A i \in 1..Len(messageStore) :
          Len(messageStore[i].list) <= MaxMessagesPerChat
    /\ countMessages(messageStore) <= MaxMessagesTotal

(* an append after which the message appended is itself not retained *)
C6_Witness ==
    /\ lastOp.op = "upsert"
    /\ countMessages(messageStore) = MaxMessagesTotal
    /\ StoredMessageOf(lastOp.args[1]) \notin Elements(flattenMessageStore(messageStore))

(* a listMessages result without the chat names *)
Stored(ret) ==
    [i \in 1..Len(ret) |->
       [id |-> ret[i].id, chatId |-> ret[i].chatId, timestamp |-> ret[i].timestamp,
        media |-> ret[i].media]]
Ascending(list) ==
    \A i \in 1..Len(list) - 1 : list[i].timestamp <= list[i + 1].timestamp

(* C8. listMessages(chatId, limit) returns at most limit entries in         *)
(* ascending timestamp order, the limit newest of that chat's retained      *)
(* messages (of all retained messages without a chat id), and leaves the    *)
(* stores as they were.                                                     *)
C8_ListMessagesResult ==
    [][lastOp'.op = "listMessages" =>
         LET chatId == lastOp'.args[1]
             limit == lastOp'.args[2]
             retained == IF chatId = None THEN flattenMessageStore(messageStore)
                         ELSE StoreGet(messageStore, chatId)
         IN /\ Len(lastOp'.ret) <= limit
            /\ Ascending(lastOp'.ret)
            /\ NewestOf(Stored(lastOp'.ret), retained, limit)
            /\ UNCHANGED stores]_vars

(* a listing cut by the limit, of a chat whose list is not in timestamp order *)
C8_Witness ==
    /\ lastOp.op = "listMessages"
    /\ lastOp.args[1] # None
    /\ Len(lastOp.ret) = lastOp.args[2]
    /\ Len(StoreGet(messageStore, lastOp.args[1])) > lastOp.args[2]
    /\ ~Ascending(StoreGet(messageStore, lastOp.args[1]))

(* C9. Per-chat eviction: when an append takes a chat's list over the       *)
(* per-chat cap, the list afterwards is the cap-many newest of the old list *)
(* and the new message.                                                     *)
C9_PerChatEvictsOldest ==
    [][(/\ lastOp'.op = "upsert"
        /\ Len(StoreGet(messageStore, lastOp'.args[1].remoteJid)) + 1
              > MaxMessagesPerChat) =>
         LET chatId == lastOp'.args[1].remoteJid
             all == Append(StoreGet(messageStore, chatId),
                           StoredMessageOf(lastOp'.args[1]))
         IN NewestOf(StoreGet(messageStore', chatId), all, MaxMessagesPerChat)]_vars

(* the chat is at its cap, the total below the global cap, and the message *)
(* just appended was the one evicted                                       *)
C9_Witness ==
    /\ lastOp.op = "upsert"
    /\ Len(StoreGet(messageStore, lastOp.args[1].remoteJid)) = MaxMessagesPerChat
    /\ countMessages(messageStore) < MaxMessagesTotal
    /\ StoredMessageOf(lastOp.args[1])
          \notin Elements(StoreGet(messageStore, lastOp.args[1].remoteJid))

(* C10. Message identity: no two retained messages share chat id and id.   *)
C10_UniqueIdentity ==
    LET all == flattenMessageStore(messageStore)
    IN \A i, j \in 1..Len(all) :
         (all[i].chatId = all[j].chatId /\ all[i].id = all[j].id) => i = j

----------------------------------------------------------------------------
(* The message store with persistence enabled (WHATSAPP_PERSIST_MESSAGES)  *)
(* and main's connection subscriber                                        *)

PersistEnvelopes ==
    [remoteJid : {"a@s.whatsapp.net"}, id : MessageIds,
     messageTimestamp : {1}, pushName : {None}, media : {None}]

InitPersist == InitWith(TRUE, NoFile)

NextPersist ==
    \/ ExternalConnectUpTo(1)
    \/ ConnectEstablishUpTo(1)
    \/ \E g \in Gens : OpenEvent(g)
    \/ \E g \in Gens : StabilizeTimerFires(g)
    \/ \E g \in Gens, msg \in PersistEnvelopes : UpsertEvent(g, msg)
    \/ SaveMessageStoreTimerFires
    \/ \E i \in 1..MaxWrites : MessageWriteStarts(i)
    \/ \E i \in 1..MaxWrites, ok \in BOOLEAN : MessageWriteSettles(i, ok)

SpecPersist == InitPersist /\ [][NextPersist]_vars

(* C7. Raw payload cache coupling: every key of the raw payload cache is   *)
(* the chat id and id of a message retained in the message store.          *)
C7_RawKeysRetained == DOMAIN rawMessageByKey \subseteq RetainedKeys(messageStore)

----------------------------------------------------------------------------
(* Generations *)

(* C11. Generation discipline: the generation counter never decreases, is  *)
(* incremented exactly once by a connect() call that establishes a socket  *)
(* and by no other step, and the socket established holds a generation no  *)
(* other socket holds.                                                     *)
C11_GenerationPerSocket ==
    [][/\ socketGeneration' >= socketGeneration
       /\ socketGeneration' # socketGeneration <=> lastOp'.op = "established"
       /\ lastOp'.op = "established" =>
             /\ socketGeneration' = socketGeneration + 1
             /\ socket' = socketGeneration'
             /\ socketGeneration' \notin sockets]_vars

(* the same, with the counter also incremented by a connect() call that    *)
(* throws in socket construction, after the generation was allocated       *)
C11_GenerationDiscipline ==
    [][/\ socketGeneration' >= socketGeneration
       /\ socketGeneration' # socketGeneration <=>
             \/ lastOp'.op = "established"
             \/ lastOp'.op = "connectFailed" /\ lastOp'.args = <<"socket">>
       /\ socketGeneration' # socketGeneration =>
             socketGeneration' = socketGeneration + 1
       /\ lastOp'.op = "established" =>
             /\ socket' = socketGeneration'
             /\ socketGeneration' \notin sockets]_vars

(* a socket established after a call that took a generation and built none *)
C11_Witness ==
    /\ lastOp.op = "established"
    /\ lastOp.gen = 2
    /\ sockets = {2}

(* C12. Stabilization reset: the timer armed by an open of generation g    *)
(* leaves the conflict counter as it is when a close was delivered on g    *)
(* since that open, or when g is no longer the current generation.         *)
C12_StabilizeResetOnlyIfStable ==
    [][(/\ lastOp'.op = "stabilizeTimer"
        /\ \/ lastOp'.gen \in lastOp.closed
           \/ lastOp'.gen # socketGeneration)
         => reconnectCount440' = reconnectCount440]_vars

----------------------------------------------------------------------------
(* The connection state machine with its timers and promises running      *)

(* An armed setTimeout callback runs.  ReconnectTimerFires is disabled     *)
(* only by the cap on connect() calls, hence strong fairness; a connect()  *)
(* call suspended in its awaits resumes or throws.                         *)
FairConn ==
    /\ \A g \in Gens, delay \in Delays : SF_vars(ReconnectTimerFires(g, delay))
    /\ WF_vars(ConnectEstablish \/ \E stage \in {"auth", "socket"} : ConnectFail(stage))

SpecConnFair == InitConn /\ [][NextConn]_vars /\ FairConn

(* a close handled by the retry branch: current generation, not logged  *)
(* out, conflict counter within the threshold                           *)
RetryableClose(g, code, count) ==
    /\ g = socketGeneration
    /\ code # LoggedOutCode
    /\ ~(code = ConflictCode /\ count + 1 > ConflictThreshold)

(* C13. Retryable close leads to reconnect: a close of the current         *)
(* generation that is not a logout and stays within the conflict threshold *)
(* arms one reconnect timer, 2000 ms or 5000 ms for the conflict code; an  *)
(* armed timer leads to a connect() call unless its generation has been    *)
(* superseded.                                                             *)
C13_RetryableCloseReconnects ==
    /\ [][(/\ lastOp'.op = "close"
           /\ RetryableClose(lastOp'.gen, lastOp'.code, reconnectCount440))
            => /\ lastOp'.armed
               /\ reconnectTimers' =
                     AddTimer(reconnectTimers,
                              <<lastOp'.gen,
                                IF lastOp'.code = ConflictCode THEN 5000 ELSE 2000>>)]_vars
    /\ \A g \in 1..(MaxGen - 1), delay \in Delays :
          (reconnectTimers[<<g, delay>>] > 0)
            ~> \/ lastOp.op = "reconnectTimer" /\ lastOp.gen = g /\ lastOp.called
               \/ socketGeneration # g

(* connect() called by the timer of a conflict close of the current generation *)
C13_Witness ==
    /\ lastOp.op = "reconnectTimer"
    /\ lastOp.called
    /\ lastOp.gen = socketGeneration
    /\ reconnectCount440 > 0

----------------------------------------------------------------------------
(* Persistence of both stores: debounce timers and write chains *)

SaveEnvelopes ==
    [remoteJid : {"a@s.whatsapp.net"}, id : {"m1"}, messageTimestamp : {1},
     pushName : PushNames, media : {None}]

NextSave ==
    \/ ExternalConnect
    \/ ConnectEstablish
    \/ \E g \in Gens, msg \in SaveEnvelopes : UpsertEvent(g, msg)
    \/ SaveChatStoreTimerFires
    \/ \E i \in 1..MaxWrites : ChatWriteStarts(i)
    \/ \E i \in 1..MaxWrites, ok \in BOOLEAN : ChatWriteSettles(i, ok)
    \/ SaveMessageStoreTimerFires
    \/ \E i \in 1..MaxWrites : MessageWriteStarts(i)
    \/ \E i \in 1..MaxWrites, ok \in BOOLEAN : MessageWriteSettles(i, ok)

SpecSave == InitPersist /\ [][NextSave]_vars

(* C14. Debounce coalescing: each store has at most one debounce timer; a  *)
(* schedule call made while the timer is armed changes neither the timer   *)
(* nor the writes; the timer, when it fires, chains exactly one write.     *)
C14_DebounceCoalesces ==
    /\ [](saveChatStoreTimer <= 1 /\ saveMessageStoreTimer <= 1)
    /\ [][/\ lastOp'.op = "upsert" /\ saveChatStoreTimer > 0
              => UNCHANGED <<saveChatStoreTimer, chatWrites, chatFile>>
          /\ lastOp'.op = "upsert" /\ saveMessageStoreTimer > 0
              => UNCHANGED <<saveMessageStoreTimer, messageWrites, messageFile>>
          /\ lastOp'.op = "saveChatStoreTimer"
              => /\ saveChatStoreTimer' = 0
                 /\ Len(chatWrites') = Len(chatWrites) + 1
          /\ lastOp'.op = "saveMessageStoreTimer"
              => /\ saveMessageStoreTimer' = 0
                 /\ Len(messageWrites') = Len(messageWrites) + 1
          /\ lastOp'.op \notin {"saveChatStoreTimer", "saveMessageStoreTimer"}
              => /\ Len(chatWrites') <= Len(chatWrites)
                 /\ Len(messageWrites') <= Len(messageWrites)]_vars

(* messages up to the per-chat cap within the first window of both stores, *)
(* one of them carrying the push name that renames the chat: each store    *)
(* scheduled twice, one timer each, no write chained yet                   *)
C14_Witness ==
    /\ lastOp.op = "upsert"
    /\ Len(messageStore) = 1 /\ Len(messageStore[1].list) = MaxMessagesPerChat
    /\ chatStore[1].name = "Alice"
    /\ saveChatStoreTimer = 1 /\ saveMessageStoreTimer = 1
    /\ chatWrites = <<>> /\ messageWrites = <<>>
    /\ ~chatFile.exists /\ ~messageFile.exists

InProgress(writes) == {i \in 1..Len(writes) : writes[i].started}

(* C15. Write serialization: each store has at most one write in progress, *)
(* the write that begins is the oldest one chained, it begins when no      *)
(* other is in progress, and a write that ends, either way, leaves the     *)
(* later ones chained in their order.                                      *)
C15_WritesSerialized ==
    /\ [](/\ Cardinality(InProgress(chatWrites)) <= 1
          /\ Cardinality(InProgress(messageWrites)) <= 1)
    /\ [][/\ lastOp'.op = "chatWriteStart"
              => /\ InProgress(chatWrites) = {}
                 /\ InProgress(chatWrites') = {1}
          /\ lastOp'.op = "messageWriteStart"
              => /\ InProgress(messageWrites) = {}
                 /\ InProgress(messageWrites') = {1}
          /\ lastOp'.op = "chatWrite" => chatWrites' = Tail(chatWrites)
          /\ lastOp'.op = "messageWrite" => messageWrites' = Tail(messageWrites)]_vars

(* in both stores a write in progress with a later one waiting behind it *)
C15_Witness ==
    /\ Len(chatWrites) = 2 /\ InProgress(chatWrites) = {1}
    /\ Len(messageWrites) = 2 /\ InProgress(messageWrites) = {1}
    /\ chatWrites[1].payload # chatWrites[2].payload
    /\ messageWrites[1].payload # messageWrites[2].payload

(* armed timer callbacks run, chained write callbacks begin once they may, *)
(* and the file system operations of a write in progress end               *)
FairSave ==
    /\ WF_vars(SaveChatStoreTimerFires)
    /\ WF_vars(SaveMessageStoreTimerFires)
    /\ WF_vars(\E i \in 1..MaxWrites : ChatWriteStarts(i))
    /\ WF_vars(\E i \in 1..MaxWrites : MessageWriteStarts(i))
    /\ WF_vars(\E i \in 1..MaxWrites, ok \in BOOLEAN : ChatWriteSettles(i, ok))
    /\ WF_vars(\E i \in 1..MaxWrites, ok \in BOOLEAN : MessageWriteSettles(i, ok))

SpecSaveFair == InitPersist /\ [][NextSave]_vars /\ FairSave

FailedWrite(op) == lastOp.op = op /\ lastOp.result = "failed"

(* C16. Persistence failure isolation: a write that fails changes neither  *)
(* the stores in memory nor the file nor the timers, the writes chained    *)
(* behind it stay chained, and they and the writes scheduled later run.    *)
C16_WriteFailureIsolated ==
    /\ [][(lastOp'.op \in {"chatWrite", "messageWrite"} /\ lastOp'.result = "failed")
            => /\ UNCHANGED <<chatStore, messageStore, rawMessageByKey, chatFile,
                              messageFile, saveChatStoreTimer,
                              saveMessageStoreTimer, status>>
               /\ chatWrites' = IF lastOp'.op = "chatWrite" THEN Tail(chatWrites)
                                ELSE chatWrites
               /\ messageWrites' = IF lastOp'.op = "messageWrite"
                                   THEN Tail(messageWrites) ELSE messageWrites]_vars
    /\ (FailedWrite("chatWrite") /\ chatWrites # <<>>)
          ~> (lastOp.op = "chatWriteStart")
    /\ (FailedWrite("messageWrite") /\ messageWrites # <<>>)
          ~> (lastOp.op = "messageWriteStart")
    /\ (FailedWrite("chatWrite") /\ saveChatStoreTimer > 0)
          ~> (lastOp.op = "saveChatStoreTimer")
    /\ (FailedWrite("messageWrite") /\ saveMessageStoreTimer > 0)
          ~> (lastOp.op = "saveMessageStoreTimer")

(* a message store write has failed with a later write chained behind it *)
(* and the timer armed again                                             *)
C16_Witness ==
    /\ FailedWrite("messageWrite")
    /\ messageWrites # <<>>
    /\ saveMessageStoreTimer > 0
    /\ ~messageFile.exists

----------------------------------------------------------------------------
(* Persistence across a restart of the process *)

(* the process ends and is started again: the object is constructed anew, *)
(* timers and chained writes are gone, the files stay                     *)
Restart ==
    /\ socketGeneration' = 0
    /\ socket' = 0
    /\ sockets' = {}
    /\ status' = Disconnected
    /\ reconnectCount440' = 0
    /\ qrDisplayed' = FALSE
    /\ reconnectTimers' = [k \in Gens \X Delays |-> 0]
    /\ stabilizeTimers' = [g \in Gens |-> 0]
    /\ connecting' = 0
    /\ loggingOut' = 0
    /\ chatStore' = <<>>
    /\ groupMetadataInFlight' = {}
    /\ groupLookups' = [g \in GroupJids |-> 0]
    /\ groupFetches' = {}
    /\ saveChatStoreTimer' = 0
    /\ chatWrites' = <<>>
    /\ messageStore' = <<>>
    /\ rawMessageByKey' = EmptyRaw
    /\ saveMessageStoreTimer' = 0
    /\ messageWrites' = <<>>
    /\ lastOp' = [op |-> "restart", gen |-> 0, code |-> 0, notified |-> FALSE,
                  armed |-> FALSE, called |-> FALSE, result |-> "ok",
                  args |-> <<>>, ret |-> <<>>, run |-> 0, terminal |-> FALSE,
                  closed |-> {}, conflicts |-> 0, retries |-> 0]
    /\ UNCHANGED <<persistMessages, now, chatFile, messageFile>>

RoundTripEnvelopes ==
    [remoteJid : {"a@s.whatsapp.net"}, id : {"m1"},
     messageTimestamp : {1}, pushName : {None}, media : MediaKinds]

NextRestart ==
    \/ ExternalConnect
    \/ ConnectEstablish
    \/ \E g \in Gens, msg \in RoundTripEnvelopes : UpsertEvent(g, msg)
    \/ SaveChatStoreTimerFires
    \/ \E i \in 1..MaxWrites : ChatWriteStarts(i)
    \/ \E i \in 1..MaxWrites, ok \in BOOLEAN : ChatWriteSettles(i, ok)
    \/ SaveMessageStoreTimerFires
    \/ \E i \in 1..MaxWrites : MessageWriteStarts(i)
    \/ \E i \in 1..MaxWrites, ok \in BOOLEAN : MessageWriteSettles(i, ok)
    \/ Restart

SpecRestart == InitPersist /\ [][NextRestart]_vars

FileOf(payload) == [exists |-> TRUE, data |-> payload]
Last(writes) == writes[Len(writes)]

(* C17. Persistence round trip: the snapshot of a store that a write       *)
(* carries, loaded into an empty store with the same caps, gives the store *)
(* the snapshot was taken of (same chats, same records, same order); a     *)
(* write that succeeds puts that snapshot in the file, and the first       *)
(* connect() of a fresh process loads the file that way.                   *)
C17_RoundTrip ==
    [][/\ lastOp'.op = "saveMessageStoreTimer"
          => loadMessageStore_store(TRUE, FileOf(Last(messageWrites').payload), <<>>)
               = messageStore
       /\ lastOp'.op = "saveChatStoreTimer"
          => loadChatStore(FileOf(Last(chatWrites').payload), <<>>) = chatStore
       /\ lastOp'.op = "messageWrite" /\ lastOp'.result = "ok"
          => messageFile' = FileOf(messageWrites[1].payload)
       /\ lastOp'.op = "chatWrite" /\ lastOp'.result = "ok"
          => chatFile' = FileOf(chatWrites[1].payload)
       /\ lastOp'.op = "connect" /\ lastOp.op = "restart"
          => /\ messageStore' = loadMessageStore_store(TRUE, messageFile, <<>>)
             /\ chatStore' = loadChatStore(chatFile, <<>>)]_vars

(* a fresh process has loaded the chat directory and a chat's messages, a *)
(* media message stored before a message without media                   *)
C17_Witness ==
    /\ lastOp.op = "connect"
    /\ sockets = {}
    /\ Len(chatStore) = 1
    /\ Len(messageStore) = 1
    /\ Len(messageStore[1].list) = 2
    /\ messageStore[1].list[1].media = "image"
    /\ messageStore[1].list[2].media = None

----------------------------------------------------------------------------
(* disconnect() *)

NextDisconnect ==
    \/ ExternalConnect
    \/ ConnectEstablish
    \/ \E g \in Gens : QrEvent(g)
    \/ \E g \in Gens : OpenEvent(g)
    \/ DisconnectCall
    \/ DisconnectDone
    \/ DisconnectFail

SpecDisconnect == InitConn /\ [][NextDisconnect]_vars

(* C18. Disconnect contract: with a socket, disconnect() performs a        *)
(* logout, and when the logout has ended the socket reference is cleared   *)
(* and a snapshot with connected = false is published; without a socket,   *)
(* disconnect() changes nothing and publishes nothing.                     *)
C18_DisconnectContract ==
    [][/\ (lastOp'.op = "disconnect" /\ socket # 0)
          => loggingOut' = loggingOut + 1
       /\ lastOp'.op = "disconnected"
          => /\ socket' = 0
             /\ status' = Disconnected
             /\ lastOp'.notified
       /\ (lastOp'.op = "disconnect" /\ socket = 0)
          => /\ UNCHANGED allButLastOp
             /\ ~lastOp'.notified]_vars
(* ---------------------------------------------------------------------- *)
(* Failures inside connect()                                               *)

(* The exception of a handler step is published: the stored snapshot is    *)
(* disconnected and carries its message, the subscribers ran, and the      *)
(* caller of connect() gets the exception                                  *)
PublishedAndRethrown ==
    /\ status' = ErrorStatus(ConnectError)
    /\ ~status'.connected
    /\ status'.error # None
    /\ lastOp'.notified
    /\ lastOp'.result = "thrown"

(* C19 as stated: every exception raised while connect() is establishing  *)
(* the socket, the rejected version lookup included, is published as a     *)
(* disconnected snapshot with its message and re-raised to the caller      *)
C19_AnyExceptionPublished ==
    [][lastOp'.op \in {"connectFailed", "versionFetchFailed"}
          => PublishedAndRethrown]_vars

(* C19, amended: every exception that leaves the body of connect() is      *)
(* published as a disconnected snapshot with its message and re-raised,    *)
(* the socket in use is left as it was; a rejected version lookup is       *)
(* neither published nor raised, and connect() goes on                     *)
C19_ConnectFailurePublished ==
    [][/\ lastOp'.op = "connectFailed"
             => /\ PublishedAndRethrown
                /\ UNCHANGED <<socket, sockets>>
                /\ connecting' = connecting - 1
       /\ lastOp'.op = "versionFetchFailed"
             => /\ UNCHANGED <<status, connecting>>
                /\ ~lastOp'.notified
                /\ lastOp'.result = "ignored"]_vars

(* makeWASocket threw in a reconnect attempt while an earlier socket was   *)
(* in use: the error is the published snapshot                             *)
C19_Witness ==
    /\ lastOp.op = "connectFailed"
    /\ lastOp.args = <<"socket">>
    /\ lastOp.result = "thrown"
    /\ status = ErrorStatus(ConnectError)
    /\ socket # 0

(* ---------------------------------------------------------------------- *)
(* Message persistence switched off (WHATSAPP_PERSIST_MESSAGES)             *)

(* message-store.json as an earlier run with persistence on left it *)
EarlierFile ==
    [exists |-> TRUE,
     data |-> <<[id |-> "m0", chatId |-> "a@s.whatsapp.net", timestamp |-> 1]>>]

GateFiles == {NoFile, EarlierFile}

GateEnvelopes ==
    [remoteJid : {"a@s.whatsapp.net"}, id : {"m1"}, messageTimestamp : {1, 2},
     pushName : {None}, media : {None}]

(* the constructor reads the switch from the environment; the file may be *)
(* there from an earlier run                                               *)
InitGate == \E persist \in BOOLEAN, file \in GateFiles : InitWith(persist, file)

NextGate ==
    \/ ExternalConnect
    \/ ConnectEstablish
    \/ \E g \in Gens : OpenEvent(g)
    \/ \E g \in Gens : StabilizeTimerFires(g)
    \/ \E g \in Gens, msg \in GateEnvelopes : UpsertEvent(g, msg)
    \/ SaveMessageStoreTimerFires
    \/ \E i \in 1..MaxWrites : MessageWriteStarts(i)
    \/ \E i \in 1..MaxWrites, ok \in BOOLEAN : MessageWriteSettles(i, ok)
    \/ Restart

SpecGate == InitGate /\ [][NextGate]_vars

(* C20: with message persistence disabled, no message-store timer is ever  *)
(* armed, no write of the message-store file is chained or performed, the  *)
(* loads of the message store (in connect) and of the raw payload cache    *)
(* (on a connected status) change nothing even when the file exists, and   *)
(* the history is what the running process received: empty after a restart *)
C20_PersistenceGated ==
    [][~persistMessages
          => /\ saveMessageStoreTimer' = 0
             /\ messageWrites' = <<>>
             /\ messageFile' = messageFile
             /\ lastOp'.op = "connect" => UNCHANGED <<messageStore, rawMessageByKey>>
             /\ lastOp'.op = "open" => UNCHANGED rawMessageByKey
             /\ lastOp'.op = "restart" => messageStore' = <<>>
             /\ \A k \in DOMAIN rawMessageByKey' : rawMessageByKey'[k] # "disk"]_vars

(* persistence off, a file of an earlier run on disk, the connection open  *)
(* and a message received: it is in memory only                            *)
C20_Witness ==
    /\ ~persistMessages
    /\ messageFile = EarlierFile
    /\ status.connected
    /\ messageStore # <<>>
    /\ lastOp.op = "open"
    /\ saveMessageStoreTimer = 0
    /\ messageWrites = <<>>

(* ---------------------------------------------------------------------- *)
(* Media requests against the raw payload cache, persistence on            *)

MediaJids == {"a@s.whatsapp.net"}
MediaMessageIds == {"m1", "unknown"}

NextMedia ==
    \/ ExternalConnectUpTo(1)
    \/ ConnectEstablishUpTo(1)
    \/ \E g \in Gens : OpenEvent(g)
    \/ \E g \in Gens, msg \in PersistEnvelopes : UpsertEvent(g, msg)
    \/ SaveMessageStoreTimerFires
    \/ \E i \in 1..MaxWrites : MessageWriteStarts(i)
    \/ \E i \in 1..MaxWrites, ok \in BOOLEAN : MessageWriteSettles(i, ok)
    \/ \E op \in MediaOps, chatId \in MediaJids, messageId \in MediaMessageIds,
          downloaded \in BOOLEAN : MediaCall(op, chatId, messageId, downloaded)

SpecMedia == InitPersist /\ [][NextMedia]_vars

(* C21: while connected, downloadMedia and getMedia for a (chatId,         *)
(* messageId) that the message store does not retain (never received, or   *)
(* evicted) fail with the message-not-found error and change no store      *)
C21_MediaNotFound ==
    [][(/\ lastOp'.op \in MediaOps
        /\ isConnected
        /\ RawKey(normalizeJid(lastOp'.args[1]), lastOp'.args[2])
              \notin RetainedKeys(messageStore))
          => /\ lastOp'.result = "notFound"
             /\ UNCHANGED allButLastOp]_vars

(* ---------------------------------------------------------------------- *)
(* Text and type of an inbound message (extractTextAndType)                 *)

(* A message content is the sequence of its populated fields in key order  *)
(* (Object.keys); a field is its key and its value, an object whose        *)
(* members are the ones present.  conversation holds a string.             *)
Keys(m) == [i \in 1..Len(m) |-> m[i].key]
HasField(m, key) == \E i \in 1..Len(m) : m[i].key = key
FieldOf(m, key) == m[CHOOSE i \in 1..Len(m) : m[i].key = key].value
(* typeof m.<key>?.<member> === "string" *)
HasString(m, key, member) == HasField(m, key) /\ member \in DOMAIN FieldOf(m, key)

(* variant: the voice-note flag not consulted *)
AudioText_NoFlag(audioMessage) == "[audio]"

(* isVoice ? "[voice-note]" : "[audio]", isVoice = Boolean(audioMessage?.ptt) *)
AudioText(audioMessage) ==
    IF "ptt" \in DOMAIN audioMessage /\ audioMessage.ptt THEN "[voice-note]"
    ELSE "[audio]"

(* variant: the fallback named after the last key *)
FallbackType_Last(m) == IF m = <<>> THEN "unknown" ELSE Keys(m)[Len(m)]

(* keys[0] || "unknown" *)
FallbackType(m) == IF m = <<>> THEN "unknown" ELSE Keys(m)[1]

extractTextFromAnyMessage(m) ==
    IF HasField(m, "conversation")
    THEN [text |-> FieldOf(m, "conversation"), type |-> "text"]
    ELSE IF HasString(m, "extendedTextMessage", "text")
    THEN [text |-> FieldOf(m, "extendedTextMessage").text, type |-> "text"]
    ELSE IF HasString(m, "imageMessage", "caption")
    THEN [text |-> FieldOf(m, "imageMessage").caption, type |-> "image"]
    ELSE IF HasString(m, "videoMessage", "caption")
    THEN [text |-> FieldOf(m, "videoMessage").caption, type |-> "video"]
    ELSE IF HasString(m, "documentMessage", "caption")
    THEN [text |-> FieldOf(m, "documentMessage").caption, type |-> "document"]
    ELSE IF HasString(m, "documentMessage", "fileName")
    THEN [text |-> "[document: " \o FieldOf(m, "documentMessage").fileName \o "]",
          type |-> "document"]
    ELSE IF HasField(m, "audioMessage")
    THEN [text |-> AudioText(FieldOf(m, "audioMessage")), type |-> "audio"]
    ELSE IF HasField(m, "imageMessage") THEN [text |-> "[image]", type |-> "image"]
    ELSE IF HasField(m, "videoMessage") THEN [text |-> "[video]", type |-> "video"]
    ELSE IF HasField(m, "stickerMessage")
    THEN [text |-> "[sticker]", type |-> "sticker"]
    ELSE IF HasString(m, "buttonsResponseMessage", "selectedDisplayText")
    THEN [text |-> FieldOf(m, "buttonsResponseMessage").selectedDisplayText,
          type |-> "buttons_response"]
    ELSE IF /\ HasString(m, "listResponseMessage", "singleSelectReply")
            /\ "selectedRowId" \in DOMAIN FieldOf(m, "listResponseMessage").singleSelectReply
    THEN [text |-> FieldOf(m, "listResponseMessage").singleSelectReply.selectedRowId,
          type |-> "list_response"]
    ELSE [text |-> "[" \o FallbackType(m) \o "]", type |-> FallbackType(m)]

(* m.ephemeralMessage?.message *)
HasEphemeralInner(m) ==
    HasField(m, "ephemeralMessage") /\ "message" \in DOMAIN FieldOf(m, "ephemeralMessage")

(* msg.message and msg.messageStubType are members that may be missing *)
extractTextAndType(msg) ==
    IF "message" \notin DOMAIN msg
    THEN IF "messageStubType" \in DOMAIN msg
         THEN [text |-> "[stub:" \o ToString(msg.messageStubType) \o "]",
               type |-> "stub"]
         ELSE [text |-> "[no-content]", type |-> "unknown"]
    ELSE IF HasEphemeralInner(msg.message)
    THEN extractTextFromAnyMessage(FieldOf(msg.message, "ephemeralMessage").message)
    ELSE extractTextFromAnyMessage(msg.message)

Field(key, value) == [key |-> key, value |-> value]

(* the populated fields the payloads are built from: for each variant the  *)
(* member shapes that take different branches                              *)
PlainFields ==
    {Field("conversation", "hi"),
     Field("extendedTextMessage", [text |-> "hi"]),
     Field("extendedTextMessage", [contextInfo |-> "c"]),
     Field("imageMessage", [caption |-> "cap", mimetype |-> "image/jpeg"]),
     Field("imageMessage", [mimetype |-> "image/jpeg"]),
     Field("videoMessage", [mimetype |-> "video/mp4"]),
     Field("documentMessage", [fileName |-> "f.pdf", mimetype |-> "application/pdf"]),
     Field("documentMessage", [mimetype |-> "application/pdf"]),
     Field("audioMessage", [mimetype |-> "audio/ogg", ptt |-> TRUE]),
     Field("audioMessage", [mimetype |-> "audio/ogg", ptt |-> FALSE]),
     Field("audioMessage", [mimetype |-> "audio/ogg"]),
     Field("stickerMessage", [mimetype |-> "image/webp"]),
     Field("buttonsResponseMessage", [selectedDisplayText |-> "yes"]),
     Field("listResponseMessage", [singleSelectReply |-> [selectedRowId |-> "row"]]),
     Field("reactionMessage", [text |-> "+"]),
     Field("messageContextInfo", [deviceListMetadataVersion |-> "2"])}

InnerContents == {<<f>> : f \in PlainFields}

EphemeralFields ==
    {Field("ephemeralMessage", [message |-> inner]) : inner \in InnerContents}
    \cup {Field("ephemeralMessage", [contextInfo |-> "c"])}

ContentFields == PlainFields \cup EphemeralFields

(* contents of one or two populated fields, and the empty object *)
Contents ==
    {<<>>} \cup {<<f>> : f \in ContentFields}
    \cup {<<f, g>> : <<f, g>> \in {p \in ContentFields \X PlainFields : p[1].key # p[2].key}}

(* WAMessageStubType codes *)
StubCodes == {0, 2, 27}

Payloads ==
    {[key |-> "k"]}
    \cup {[key |-> "k", messageStubType |-> stub] : stub \in StubCodes}
    \cup {[key |-> "k", message |-> m] : m \in Contents}
    \cup {[key |-> "k", message |-> m, messageStubType |-> stub] :
            m \in InnerContents, stub \in StubCodes}

(* the handler's call const { text, type } = this.extractTextAndType(msg) *)
Classify(msg) ==
    /\ lastOp' = [OpRec("extractTextAndType", 0, 0, FALSE, FALSE, FALSE, "ok")
                    EXCEPT !.args = <<msg>>, !.ret = <<extractTextAndType(msg)>>]
    /\ UNCHANGED allButLastOp

NextClassify == \E msg \in Payloads : Classify(msg)

SpecClassify == InitConn /\ [][NextClassify]_vars

(* content whose only populated field is an audio message *)
OnlyAudio(msg) ==
    /\ "message" \in DOMAIN msg
    /\ Keys(msg.message) = <<"audioMessage">>

(* C22: a payload whose only populated field is an audio message is        *)
(* classified as type audio, with text [voice-note] when its ptt flag is   *)
(* true and [audio] otherwise                                              *)
C22_AudioClassified ==
    (lastOp.op = "extractTextAndType" /\ OnlyAudio(lastOp.args[1]))
       => LET audio == FieldOf(lastOp.args[1].message, "audioMessage")
          IN  lastOp.ret[1] =
                 [text |-> IF "ptt" \in DOMAIN audio /\ audio.ptt = TRUE
                           THEN "[voice-note]" ELSE "[audio]",
                  type |-> "audio"]

(* a voice note was classified *)
C22_Witness ==
    /\ lastOp.op = "extractTextAndType"
    /\ lastOp.args[1] = [key |-> "k",
                         message |-> <<Field("audioMessage",
                                             [mimetype |-> "audio/ogg", ptt |-> TRUE])>>]
    /\ lastOp.ret[1] = [text |-> "[voice-note]", type |-> "audio"]

(* ---------------------------------------------------------------------- *)
(* Global eviction                                                         *)

(* every list holds messages of its own chat only, no list is empty and no *)
(* chat has two lists                                                      *)
FiledByChat(store) ==
    /\ \A i \in 1..Len(store) :
          /\ store[i].list # <<>>
          /\ \A j \in 1..Len(store[i].list) : store[i].list[j].chatId = store[i].chatId
    /\ \A i, j \in 1..Len(store) : store[i].chatId = store[j].chatId => i = j

EvictedFrom(before, after, x) ==
    x \notin Elements(before) /\ x \notin Elements(after)

(* another message of the same timestamp, inserted earlier, in before *)
EarlierEqual(before, x) ==
    {y \in Elements(before) : y.timestamp = x.timestamp /\ y # x}

(* C24: among messages of equal timestamp, eviction goes by insertion      *)
(* order, per chat and globally: the message an append adds is never the   *)
(* one evicted while a message of the same timestamp inserted before it    *)
(* (in the chat, for the per-chat cap; in the store, for the global cap)   *)
(* is retained                                                             *)
C24_TieBreakByInsertion ==
    [][lastOp'.op = "upsert" =>
         LET x == StoredMessageOf(lastOp'.args[1])
             list == StoreGet(messageStore, x.chatId)
             all == flattenMessageStore(messageStore)
         IN /\ (/\ Len(list) + 1 > MaxMessagesPerChat
                 /\ EvictedFrom(list, StoreGet(messageStore', x.chatId), x))
                  => \A y \in EarlierEqual(list, x) :
                        Occurrences(StoreGet(messageStore', x.chatId), y)
                           < Occurrences(list, y)
            /\ (/\ Len(list) + 1 <= MaxMessagesPerChat
                 /\ countMessages(messageStore) + 1 > MaxMessagesTotal
                 /\ EvictedFrom(all, flattenMessageStore(messageStore'), x))
                  => \A y \in EarlierEqual(all, x) :
                        Occurrences(flattenMessageStore(messageStore'), y)
                           < Occurrences(all, y)]_vars

(* C24, per chat only: the part that holds *)
C24_PerChatTieBreak ==
    [][lastOp'.op = "upsert" =>
         LET x == StoredMessageOf(lastOp'.args[1])
             list == StoreGet(messageStore, x.chatId)
         IN (/\ Len(list) + 1 > MaxMessagesPerChat
             /\ EvictedFrom(list, StoreGet(messageStore', x.chatId), x))
               => \A y \in EarlierEqual(list, x) :
                     Occurrences(StoreGet(messageStore', x.chatId), y)
                        < Occurrences(list, y)]_vars

(* ---------------------------------------------------------------------- *)
(* Loading a message file larger than the caps                             *)

MaxFileLen == 5

LoadEntries ==
    [id : {"m1"}, chatId : {"a@s.whatsapp.net", "b@s.whatsapp.net"},
     timestamp : Timestamps]

RECURSIVE ArraysOfLen(_)
ArraysOfLen(n) ==
    IF n = 0 THEN {<<>>}
    ELSE {Append(array, e) : array \in ArraysOfLen(n - 1), e \in LoadEntries}

ArraysUpTo(n) == UNION {ArraysOfLen(k) : k \in 0..n}

(* message-store.json as a run with larger caps may have left it *)
LoadFiles(n) == {[exists |-> TRUE, data |-> data] : data \in ArraysUpTo(n)}

InitLoad == \E file \in LoadFiles(MaxFileLen) : InitWith(TRUE, file)

NextLoad ==
    \/ ExternalConnect
    \/ ConnectEstablish
    \/ \E g \in Gens : OpenEvent(g)

SpecLoad == InitLoad /\ [][NextLoad]_vars

(* the entries of one chat, in array order *)
EntriesOf(data, chatId) ==
    LET OfChat(e) == e.chatId = chatId IN SelectSeq(data, OfChat)

Min(a, b) == IF a <= b THEN a ELSE b

RECURSIVE SumOver(_, _)
SumOver(f, S) ==
    IF S = {} THEN 0
    ELSE LET c == CHOOSE c \in S : TRUE IN f[c] + SumOver(f, S \ {c})

(* what the per-chat cap leaves of each chat, counted over the chats *)
AfterPerChatCap(data) ==
    SumOver([c \in {e.chatId : e \in Elements(data)} |->
                Min(MaxMessagesPerChat, Len(EntriesOf(data, c)))],
            {e.chatId : e \in Elements(data)})

(* the entries of chatId that the load did not keep *)
Dropped(data, store, chatId) ==
    {d \in Elements(EntriesOf(data, chatId)) :
        Occurrences(StoreGet(store, chatId), d)
           < Occurrences(EntriesOf(data, chatId), d)}

(* C25: loading a persisted array of any size leaves every chat within the *)
(* per-chat cap and the total within the global cap; the survivors are     *)
(* entries of the file held under their own chat, in array order when      *)
(* nothing is trimmed; per chat they are its newest, and where the global  *)
(* cap took entries of a chat, everything dropped of that chat is no newer *)
(* than any survivor                                                       *)
C25_LoadSelfTrims ==
    [][(/\ lastOp'.op = "connect"
        /\ messageStore = <<>>
        /\ persistMessages
        /\ messageFile.exists) =>
         LET data == ParseMessages(messageFile.data)
             chats == {e.chatId : e \in Elements(data)}
         IN /\ \A i \in 1..Len(messageStore') :
                  Len(messageStore'[i].list) <= MaxMessagesPerChat
            /\ countMessages(messageStore') = Min(MaxMessagesTotal, AfterPerChatCap(data))
            /\ FiledByChat(messageStore')
            /\ SubBag(flattenMessageStore(messageStore'), data)
            /\ \A c \in chats :
                  /\ \A d \in Dropped(data, messageStore', c) :
                        \A k \in Elements(StoreGet(messageStore', c)) :
                           d.timestamp <= k.timestamp
                  /\ Len(StoreGet(messageStore', c))
                        < Min(MaxMessagesPerChat, Len(EntriesOf(data, c)))
                       => \A d \in Dropped(data, messageStore', c) :
                             \A k \in Elements(flattenMessageStore(messageStore')) :
                                d.timestamp <= k.timestamp
            /\ (/\ Len(data) <= MaxMessagesTotal
                 /\ \A c \in chats : Len(EntriesOf(data, c)) <= MaxMessagesPerChat)
                  => \A c \in chats : StoreGet(messageStore', c) = EntriesOf(data, c)]_vars

(* a file of five entries, three of one chat, was loaded: both caps acted *)
C25_Witness ==
    /\ lastOp.op = "connect"
    /\ Len(messageFile.data) = MaxFileLen
    /\ \E c \in ChatIds : Len(EntriesOf(messageFile.data, c)) = 3
    /\ countMessages(messageStore) = MaxMessagesTotal
    /\ Len(messageStore) = 2

(* ---------------------------------------------------------------------- *)
(* Conflict closes counted across generations                              *)

(* C26: the conflict counter outlives reconnects: between two resets by a  *)
(* stabilization timer at most ConflictThreshold reconnect timers are      *)
(* armed by conflict closes, and a conflict close handled after that many, *)
(* on whatever generation is current, publishes the conflict error and     *)
(* arms no reconnect timer; establishing a socket does not change the      *)
(* counter                                                                 *)
C26_ConflictRetriesBounded ==
    /\ [](lastOp.retries <= ConflictThreshold)
    /\ [][(/\ lastOp'.op = "close"
            /\ lastOp'.code = ConflictCode
            /\ lastOp'.result # "stale"
            /\ lastOp.conflicts >= ConflictThreshold)
             => /\ status' = ErrorStatus(ConflictError)
                /\ lastOp'.notified
                /\ ~lastOp'.armed
                /\ reconnectTimers' = reconnectTimers]_vars
    /\ [][lastOp'.op \in {"established", "connect", "reconnectTimer"}
             => reconnectCount440' = reconnectCount440]_vars

(* the third conflict close since the last reset was handled on generation *)
(* 2, the first on generation 1: two reconnect timers were armed, none now *)
C26_Witness ==
    /\ lastOp.op = "close"
    /\ lastOp.result = "conflictStop"
    /\ lastOp.gen = 2
    /\ lastOp.closed = {1, 2}
    /\ lastOp.conflicts = ConflictThreshold + 1
    /\ lastOp.retries = ConflictThreshold
    /\ status = ErrorStatus(ConflictError)

(* ---------------------------------------------------------------------- *)
(* Order of the classification rules                                       *)

(* the variants extractTextFromAnyMessage tests for *)
RecognizedKeys ==
    {"conversation", "extendedTextMessage", "imageMessage", "videoMessage",
     "documentMessage", "audioMessage", "stickerMessage",
     "buttonsResponseMessage", "listResponseMessage"}

StubResult(code) == [text |-> "[stub:" \o ToString(code) \o "]", type |-> "stub"]
NoContentResult == [text |-> "[no-content]", type |-> "unknown"]

(* the rules after the stub rule, for a payload msg classified as r *)
RulesAfterStub(msg, r) ==
    /\ "message" \notin DOMAIN msg => r = NoContentResult
    /\ ("message" \in DOMAIN msg /\ HasEphemeralInner(msg.message))
          => r = extractTextAndType(
                    [key |-> msg.key,
                     message |-> FieldOf(msg.message, "ephemeralMessage").message])
    /\ (/\ "message" \in DOMAIN msg
        /\ msg.message # <<>>
        /\ \A i \in 1..Len(msg.message) :
              Keys(msg.message)[i] \notin RecognizedKeys \cup {"ephemeralMessage"})
          => r = [text |-> "[" \o Keys(msg.message)[1] \o "]",
                  type |-> Keys(msg.message)[1]]

(* C27: the rules apply in the order stub code, absent content, ephemeral  *)
(* unwrap, variant inspection, the first that matches deciding: a payload  *)
(* carrying a stub code is classified [stub:<code>] / stub; one with no    *)
(* content and no stub code [no-content] / unknown; an ephemeral wrapper   *)
(* as the payload it wraps; an unrecognized variant [<name>] / <name>      *)
C27_ClassifierPrecedence ==
    lastOp.op = "extractTextAndType" =>
       LET msg == lastOp.args[1]
           r == lastOp.ret[1]
       IN IF "messageStubType" \in DOMAIN msg THEN r = StubResult(msg.messageStubType)
          ELSE RulesAfterStub(msg, r)

(* C27 with the order the source has: absent content first, and the stub   *)
(* code consulted only then                                                *)
C27_ContentBeforeStub ==
    lastOp.op = "extractTextAndType" =>
       LET msg == lastOp.args[1]
           r == lastOp.ret[1]
       IN IF "message" \notin DOMAIN msg /\ "messageStubType" \in DOMAIN msg
          THEN r = StubResult(msg.messageStubType)
          ELSE RulesAfterStub(msg, r)

(* ---------------------------------------------------------------------- *)
(* Group subject lookups                                                   *)

Participants == {"p@s.whatsapp.net"}

(* messages of the group, carrying their sender, and of a direct chat *)
GroupEnvelopes ==
    [remoteJid : GroupJids, id : {"m1"}, messageTimestamp : {1},
     pushName : PushNames, media : {None}, participant : Participants]
    \cup [remoteJid : {"a@s.whatsapp.net"}, id : {"m1"}, messageTimestamp : {1},
          pushName : PushNames, media : {None}, participant : {None}]

NextGroup ==
    \/ ExternalConnect
    \/ ConnectEstablish
    \/ \E g \in Gens : OpenEvent(g)
    \/ \E g \in Gens, msg \in GroupEnvelopes : UpsertEvent(g, msg)
    \/ \E j \in GroupJids, subject \in GroupSubjects \cup {None} :
          GroupLookupSettles(j, subject)
    \/ \E j \in GroupJids : GroupLookupTimesOut(j)
    \/ \E j \in GroupJids : GroupLookupAnsweredLate(j)

SpecGroup == InitConn /\ [][NextGroup]_vars

(* C28: at any time at most one subject lookup per group is outstanding,   *)
(* and a message of a group whose lookup is in flight starts no second one *)
C28_SingleFlight ==
    /\ [](\A j \in GroupJids : groupLookups[j] <= 1)
    /\ [][(/\ lastOp'.op = "upsert"
            /\ lastOp'.args[1].remoteJid \in groupMetadataInFlight)
             => groupLookups' = groupLookups]_vars

(* C28, for the in-flight set alone: a group is in the set only while a    *)
(* request of its own is outstanding, and a message of a group in the set  *)
(* sends no request                                                        *)
C28_InFlightSetGuards ==
    /\ [](\A j \in groupMetadataInFlight : groupLookups[j] >= 1)
    /\ [][(/\ lastOp'.op = "upsert"
            /\ lastOp'.args[1].remoteJid \in groupMetadataInFlight)
             => groupLookups' = groupLookups]_vars

(* ---------------------------------------------------------------------- *)
(* Names in the chat directory                                             *)

(* chat-store.json of an earlier run: the group under the subject it had *)
EarlierChatFile ==
    [exists |-> TRUE,
     data |-> <<[id |-> "g@g.us", name |-> "Old subject", isGroup |-> TRUE,
                 conversationTimestamp |-> 0]>>]

(* a contacts event that names the group *)
GroupContacts ==
    [id : GroupJids, notify : {"Bob"}, name : {None}, verifiedName : {None}]

InitNames == \E chats \in {NoChatFile, EarlierChatFile} : InitFiles(FALSE, NoFile, chats)

NextNames ==
    \/ ExternalConnectUpTo(1)
    \/ ConnectEstablishUpTo(1)
    \/ \E g \in Gens : OpenEvent(g)
    \/ \E g \in Gens, msg \in GroupEnvelopes : UpsertEvent(g, msg)
    \/ \E j \in GroupJids, subject \in GroupSubjects \cup {None} :
          GroupLookupSettles(j, subject)
    \/ \E j \in GroupJids : GroupLookupTimesOut(j)
    \/ \E j \in GroupJids : GroupLookupAnsweredLate(j)
    \/ \E g \in Gens, contact \in GroupContacts : ContactsUpsert(g, contact)
    \/ GetChats(1)
    \/ \E answered \in BOOLEAN, groups \in FetchedGroups :
          GetChatsFallbackSettles(1, answered, groups)

SpecNames == InitNames /\ [][NextNames]_vars

(* the names the file on disk holds for a chat *)
PersistedNames(file, id) ==
    {file.data[i].name : i \in {k \in 1..Len(file.data) : file.data[k].id = id}}

(* C29: the directory record of a group is never named after the sender of *)
(* a message (push name or participant): its name is the local part of the *)
(* group identifier, a name loaded from the file, or a subject fetched     *)
(* from the transport; a message of the group creates the record under the *)
(* local part and leaves the name of an existing record alone              *)
C29_GroupNaming ==
    /\ [](\A i \in 1..Len(chatStore) :
            IsGroupJid(chatStore[i].id)
               => chatStore[i].name \in {LocalPart(chatStore[i].id)}
                                        \cup PersistedNames(chatFile, chatStore[i].id)
                                        \cup GroupSubjects)
    /\ [][(lastOp'.op = "upsert" /\ IsGroupJid(lastOp'.args[1].remoteJid))
             => ChatGet(chatStore', lastOp'.args[1].remoteJid).name
                  = (IF ChatHas(chatStore, lastOp'.args[1].remoteJid)
                     THEN ChatGet(chatStore, lastOp'.args[1].remoteJid).name
                     ELSE LocalPart(lastOp'.args[1].remoteJid))]_vars

(* a message of the group with a push name and a participant was handled   *)
(* and the group's record has the provisional name                         *)
C29_Witness ==
    /\ lastOp.op = "upsert"
    /\ IsGroupJid(lastOp.args[1].remoteJid)
    /\ lastOp.args[1].pushName = "Alice"
    /\ lastOp.args[1].participant \in Participants
    /\ ChatGet(chatStore, lastOp.args[1].remoteJid).name
          = LocalPart(lastOp.args[1].remoteJid)

(* ---------------------------------------------------------------------- *)
(* Contact events                                                          *)

Contacts ==
    [id : {None, "a@s.whatsapp.net", "g@g.us", "list@broadcast"},
     notify : {None, "Bob"}, name : {None, "Carol"}, verifiedName : {None, "Vera"}]

(* one message per chat: of a direct chat and of a group, with and without *)
(* push name                                                               *)
ContactEnvelopes ==
    [remoteJid : {"a@s.whatsapp.net", "g@g.us"}, id : {"m1"}, messageTimestamp : {1},
     pushName : PushNames, media : {None}]

NextContacts ==
    \/ ExternalConnectUpTo(1)
    \/ ConnectEstablishUpTo(1)
    \/ \E g \in Gens : OpenEvent(g)
    \/ \E g \in Gens, msg \in ContactEnvelopes : UpsertEvent(g, msg)
    \/ \E g \in Gens, contact \in Contacts : ContactsUpsert(g, contact)

SpecContacts == InitConn /\ [][NextContacts]_vars

(* the records of every chat but id are what they were, in their places *)
OthersKept(before, after, id) ==
    /\ Len(after) = Len(before) + (IF ChatHas(before, id) THEN 0 ELSE 1)
    /\ \A i \in 1..Len(before) : before[i].id # id => after[i] = before[i]

(* C30: a contacts event for a non-group identifier sets the display name  *)
(* of that chat's record to the contact's name whatever the name was,      *)
(* creating the record when there is none, and touches no other record; a  *)
(* contacts event for a group or broadcast identifier changes no record;   *)
(* a later message does not replace a name of a non-group record that      *)
(* differs from the provisional one                                        *)
C30_ContactsAuthoritative ==
    /\ [][(lastOp'.op = "contacts" /\ lastOp'.args[1].id # None
            /\ ~IsGroupJid(lastOp'.args[1].id)
            /\ lastOp'.args[1].id \notin BroadcastJids)
           => /\ ChatHas(chatStore', lastOp'.args[1].id)
              /\ ChatGet(chatStore', lastOp'.args[1].id)
                    = (IF ChatHas(chatStore, lastOp'.args[1].id)
                       THEN [ChatGet(chatStore, lastOp'.args[1].id) EXCEPT
                               !.name = ContactName(lastOp'.args[1])]
                       ELSE [id |-> lastOp'.args[1].id,
                             name |-> ContactName(lastOp'.args[1]),
                             isGroup |-> FALSE, conversationTimestamp |-> 0])
              /\ OthersKept(chatStore, chatStore', lastOp'.args[1].id)]_vars
    /\ [][(lastOp'.op = "contacts"
            /\ (lastOp'.args[1].id = None \/ IsGroupJid(lastOp'.args[1].id)
                   \/ lastOp'.args[1].id \in BroadcastJids))
           => chatStore' = chatStore]_vars
    /\ [][(lastOp'.op = "upsert" /\ ~IsGroupJid(lastOp'.args[1].remoteJid)
            /\ ChatHas(chatStore, lastOp'.args[1].remoteJid)
            /\ ChatGet(chatStore, lastOp'.args[1].remoteJid).name
                  # LocalPart(lastOp'.args[1].remoteJid))
           => ChatGet(chatStore', lastOp'.args[1].remoteJid).name
                = ChatGet(chatStore, lastOp'.args[1].remoteJid).name]_vars

(* a message with a push name was handled after a contacts event named the *)
(* chat, and the record has the contact's name; the group has a record too *)
C30_Witness ==
    /\ lastOp.op = "upsert"
    /\ lastOp.args[1].remoteJid = "a@s.whatsapp.net"
    /\ lastOp.args[1].pushName = "Alice"
    /\ ChatGet(chatStore, "a@s.whatsapp.net").name = "Bob"
    /\ ChatHas(chatStore, "g@g.us")

(* ---------------------------------------------------------------------- *)
(* Last activity of the chat records                                       *)

MaxNow == 2

(* Date.now() moves on *)
Tick ==
    /\ now < MaxNow
    /\ now' = now + 1
    /\ lastOp' = OpRec("tick", 0, 0, FALSE, FALSE, FALSE, "ok")
    /\ UNCHANGED <<connVars, persistMessages, chatVars, chatPersistVars, storeVars,
                   persistVars>>

(* contacts events for the direct chat and for the group *)
ActivityContacts ==
    [id : {"a@s.whatsapp.net", "g@g.us"}, notify : {"Bob"}, name : {None},
     verifiedName : {None}]

NextActivity ==
    \/ ExternalConnectUpTo(1)
    \/ ConnectEstablishUpTo(1)
    \/ \E g \in Gens : OpenEvent(g)
    \/ Tick
    \/ \E g \in Gens, msg \in GroupEnvelopes : UpsertEvent(g, msg)
    \/ \E j \in GroupJids, subject \in GroupSubjects \cup {None} :
          GroupLookupSettles(j, subject)
    \/ \E g \in Gens, contact \in ActivityContacts : ContactsUpsert(g, contact)
    \/ GetChats(1)
    \/ \E answered \in BOOLEAN, groups \in FetchedGroups :
          GetChatsFallbackSettles(1, answered, groups)

SpecActivity == InitNames /\ [][NextActivity]_vars

(* every record of before is in after with a last activity not earlier *)
ActivityKept(before, after) ==
    \A i \in 1..Len(before) :
        /\ ChatHas(after, before[i].id)
        /\ ChatGet(after, before[i].id).conversationTimestamp
             >= before[i].conversationTimestamp

(* C31: no step makes the last-activity timestamp of a chat record smaller, *)
(* whatever the interleaving of message events, contact events, the load    *)
(* from disk and getChats with its fallback, the clock never going back     *)
C31_ActivityMonotone == [][ActivityKept(chatStore, chatStore')]_vars

(* C31, supporting: every step but the settlement of the getChats fallback *)
(* keeps the last activity of every record                                 *)
C31_MonotoneOutsideFallback ==
    [][lastOp'.op # "getChatsFallback" => ActivityKept(chatStore, chatStore')]_vars

(* ---------------------------------------------------------------------- *)
(* getChats from the directory                                             *)

(* one message per direct chat; the group is in the file of an earlier run *)
ChatsEnvelopes ==
    [remoteJid : {"a@s.whatsapp.net", "b@s.whatsapp.net"}, id : {"m1"},
     messageTimestamp : {1}, pushName : {None}, media : {None}]

NextChats ==
    \/ ExternalConnectUpTo(1)
    \/ ConnectEstablishUpTo(1)
    \/ \E g \in Gens : OpenEvent(g)
    \/ Tick
    \/ \E g \in Gens, msg \in ChatsEnvelopes : UpsertEvent(g, msg)
    \/ \E limit \in 1..MaxLimit : GetChats(limit)
    \/ \E limit \in 1..MaxLimit, groups \in FetchedGroups :
          GetChatsFallbackSettles(limit, TRUE, groups)

SpecChats == InitNames /\ [][NextChats]_vars

(* the record of the directory a returned chat was made from *)
RecordOf(chats, chat) == ChatGet(chats, chat.id)

(* C32: getChats, called while connected with a directory that is not      *)
(* empty, returns min(limit, size) chats of the directory, each once, in   *)
(* descending order of last activity, none of them less recently active    *)
(* than a chat left out; it sends nothing to the transport and leaves the  *)
(* directory as it was                                                     *)
C32_GetChatsFromDirectory ==
    [][(lastOp'.op = "getChats" /\ isConnected /\ chatStore # <<>>)
        => LET ret == lastOp'.ret
               limit == lastOp'.args[1]
               inRet == {ret[i].id : i \in 1..Len(ret)}
           IN /\ lastOp'.result = "ok"
              /\ Len(ret) = (IF Len(chatStore) < limit THEN Len(chatStore) ELSE limit)
              /\ Cardinality(inRet) = Len(ret)
              /\ \A i \in 1..Len(ret) :
                    /\ ChatHas(chatStore, ret[i].id)
                    /\ ret[i].name = RecordOf(chatStore, ret[i]).name
                    /\ ret[i].isGroup = RecordOf(chatStore, ret[i]).isGroup
              /\ \A i, j \in 1..Len(ret) :
                    i < j => RecordOf(chatStore, ret[i]).conversationTimestamp
                               >= RecordOf(chatStore, ret[j]).conversationTimestamp
              /\ \A i \in 1..Len(ret), k \in 1..Len(chatStore) :
                    chatStore[k].id \notin inRet
                      => RecordOf(chatStore, ret[i]).conversationTimestamp
                           >= chatStore[k].conversationTimestamp
              /\ UNCHANGED <<chatStore, groupFetches, groupLookups,
                             groupMetadataInFlight, saveChatStoreTimer, chatWrites,
                             chatFile>>]_vars

(* getChats(2) has answered from a directory of three chats of which the *)
(* most recently active was not the first to be recorded                 *)
C32_Witness ==
    /\ lastOp.op = "getChats"
    /\ lastOp.result = "ok"
    /\ lastOp.args[1] = 2
    /\ Len(chatStore) = 3
    /\ Len(lastOp.ret) = 2
    /\ lastOp.ret[1].id # chatStore[1].id
    /\ RecordOf(chatStore, lastOp.ret[1]).conversationTimestamp
         > RecordOf(chatStore, lastOp.ret[2]).conversationTimestamp

(* ---------------------------------------------------------------------- *)
(* The connected precondition after a close                                *)

(* C33: once a close event of the current generation has been handled,     *)
(* isConnected is false (and so is the precondition of the operations that *)
(* need the connection), the reconnect backoff included                    *)
C33_ClosedMeansNotConnected ==
    [][(lastOp'.op = "close" /\ lastOp'.result # "stale")
         => ~(status'.connected /\ socket' # 0)]_vars

(* C33, supporting: a close that ends the session (logged out, or one      *)
(* conflict too many) publishes a status that is not connected             *)
C33_TerminalCloseNotConnected ==
    [][(lastOp'.op = "close" /\ lastOp'.result \in {"loggedOut", "conflictStop"})
         => ~(status'.connected /\ socket' # 0)]_vars

(* ---------------------------------------------------------------------- *)
(* Reconnects of one session: connect() is called once from outside, every *)
(* later socket is built by a reconnect timer                              *)

NextReconnect ==
    \/ ExternalConnectUpTo(1)
    \/ ConnectEstablishUpTo(MaxSockets)
    \/ \E g \in Gens, code \in {428, ConflictCode} : CloseEvent(g, code)
    \/ \E g \in Gens, delay \in Delays : ReconnectTimerFiresUpTo(g, delay, MaxSockets)

SpecReconnect == InitConn /\ [][NextReconnect]_vars

(* the sockets built whose close has not been delivered *)
LiveSockets == sockets \ lastOp.closed

(* C34: the closes of one generation, however many, have at most one new   *)
(* socket built in response (so the sockets built are at most one more     *)
(* than the generations closed), and no two sockets with handlers          *)
(* subscribed are live at the same time                                    *)
C34_OneReconnectPerGeneration ==
    /\ [](Cardinality(sockets) <= 1 + Cardinality(lastOp.closed))
    /\ [](Cardinality(LiveSockets) <= 1)

(* C34, supporting: a reconnect timer calls connect() only when the        *)
(* generation of the close that armed it is still the current one          *)
C34_TimerChecksGeneration ==
    [][(lastOp'.op = "reconnectTimer")
         => (lastOp'.called <=> lastOp'.gen = socketGeneration)]_vars

(* ---------------------------------------------------------------------- *)
(* disconnect() and the reconnect timers                                   *)

NextLogout ==
    \/ ExternalConnect
    \/ ConnectEstablish
    \/ \E g \in Gens : OpenEvent(g)
    \/ \E g \in Gens : CloseEvent(g, 428)
    \/ \E g \in Gens, delay \in Delays : ReconnectTimerFires(g, delay)
    \/ DisconnectCall
    \/ DisconnectDone
    \/ DisconnectFail

SpecLogout == InitConn /\ [][NextLogout]_vars

(* C35: when disconnect() has completed, the next thing to happen is not a *)
(* reconnect timer calling connect(): armed timers are cancelled or find   *)
(* themselves stale, and the socket stays null until connect() is called   *)
(* from outside                                                            *)
C35_DisconnectCancelsReconnect ==
    [][(lastOp.op = "disconnected" /\ lastOp.result = "ok")
         => ~(lastOp'.op = "reconnectTimer" /\ lastOp'.called)]_vars

(* C35, supporting: disconnect() itself allocates no generation, arms no   *)
(* timer and calls connect() at no point                                   *)
C35_DisconnectStartsNothing ==
    [][(lastOp'.op \in {"disconnect", "disconnected"})
         => /\ UNCHANGED <<socketGeneration, reconnectTimers, connecting>>
            /\ ~lastOp'.called]_vars

(* ---------------------------------------------------------------------- *)
(* Events of superseded sockets                                            *)

(* C36: a QR event or an open event of a socket whose generation is no     *)
(* longer the current one leaves the published status snapshot as it was   *)
C36_StaleSocketKeepsStatus ==
    [][(lastOp'.op \in {"qr", "open"} /\ lastOp'.gen # socketGeneration)
         => status' = status]_vars

(* C36, supporting: a close event of a superseded socket leaves the        *)
(* snapshot, the counters and the timers as they were                      *)
C36_StaleCloseKeepsStatus ==
    [][(lastOp'.op = "close" /\ lastOp'.gen # socketGeneration)
         => UNCHANGED <<status, reconnectCount440, reconnectTimers, qrDisplayed>>]_vars

(* ---------------------------------------------------------------------- *)
(* The stores reach the disk: timers and writes that do not fail           *)

NextFlush ==
    \/ ExternalConnect
    \/ ConnectEstablish
    \/ \E g \in Gens, msg \in SaveEnvelopes : UpsertEvent(g, msg)
    \/ SaveChatStoreTimerFires
    \/ \E i \in 1..MaxWrites : ChatWriteStarts(i)
    \/ \E i \in 1..MaxWrites : ChatWriteSettles(i, TRUE)
    \/ SaveMessageStoreTimerFires
    \/ \E i \in 1..MaxWrites : MessageWriteStarts(i)
    \/ \E i \in 1..MaxWrites : MessageWriteSettles(i, TRUE)

(* armed timer callbacks run, chained write callbacks begin once they may, *)
(* and the file system operations of a write in progress end               *)
FairFlush ==
    /\ WF_vars(SaveChatStoreTimerFires)
    /\ WF_vars(SaveMessageStoreTimerFires)
    /\ WF_vars(\E i \in 1..MaxWrites : ChatWriteStarts(i))
    /\ WF_vars(\E i \in 1..MaxWrites : MessageWriteStarts(i))
    /\ WF_vars(\E i \in 1..MaxWrites : ChatWriteSettles(i, TRUE))
    /\ WF_vars(\E i \in 1..MaxWrites : MessageWriteSettles(i, TRUE))

SpecFlush == InitPersist /\ [][NextFlush]_vars

SpecFlushFair == InitPersist /\ [][NextFlush]_vars /\ FairFlush

(* the file holds what a write of the store as it is now would put there *)
MessageStoreSaved ==
    messageFile = FileOf(JSON_stringify(flattenMessageStore(messageStore)))

(* C37: with persistence on and no write failing, when messages have been  *)
(* appended and from some point on no more are, the message store file     *)
(* comes to hold the flattened store and keeps holding it                  *)
C37_MessageStorePersisted ==
    (<>(lastOp.op = "upsert") /\ <>[][lastOp'.op # "upsert"]_vars)
        => <>[]MessageStoreSaved

(* the last write has landed after two appends: nothing armed, nothing    *)
(* queued, the file holds both messages                                   *)
C37_Witness ==
    /\ lastOp.op = "messageWrite"
    /\ Len(flattenMessageStore(messageStore)) = 2
    /\ saveMessageStoreTimer = 0
    /\ messageWrites = <<>>
    /\ MessageStoreSaved

(* ---------------------------------------------------------------------- *)
(* The chat directory reaches the disk                                     *)

(* one message per chat, of the direct chat and of the group *)
DirectoryEnvelopes ==
    [remoteJid : {"a@s.whatsapp.net", "g@g.us"}, id : {"m1"}, messageTimestamp : {1},
     pushName : {None}, media : {None}]

DirectoryContacts ==
    [id : {"a@s.whatsapp.net"}, notify : {"Bob"}, name : {None}, verifiedName : {None}]

NextDirectory ==
    \/ ExternalConnectUpTo(1)
    \/ ConnectEstablish
    \/ Tick
    \/ \E g \in Gens, msg \in DirectoryEnvelopes : UpsertEvent(g, msg)
    \/ \E g \in Gens, contact \in DirectoryContacts : ContactsUpsert(g, contact)
    \/ \E j \in GroupJids, subject \in GroupSubjects : GroupLookupSettles(j, subject)
    \/ SaveChatStoreTimerFires
    \/ \E i \in 1..MaxWrites : ChatWriteStarts(i)
    \/ \E i \in 1..MaxWrites : ChatWriteSettles(i, TRUE)

(* armed timer callbacks run, chained writes begin and end, and a subject *)
(* lookup is answered                                                     *)
FairDirectory ==
    /\ WF_vars(SaveChatStoreTimerFires)
    /\ WF_vars(\E i \in 1..MaxWrites : ChatWriteStarts(i))
    /\ WF_vars(\E i \in 1..MaxWrites : ChatWriteSettles(i, TRUE))
    /\ WF_vars(\E j \in GroupJids, subject \in GroupSubjects :
                  GroupLookupSettles(j, subject))

SpecDirectoryFair == InitConn /\ [][NextDirectory]_vars /\ FairDirectory

(* an event that changes the directory *)
DirectoryEvent(op) == op \in {"upsert", "contacts", "groupLookup"}

ChatStoreSaved == chatFile = FileOf(JSON_stringify(chatStore))

(* the records without their last activity *)
Named(chats) ==
    [i \in 1..Len(chats) |->
        [id |-> chats[i].id, name |-> chats[i].name, isGroup |-> chats[i].isGroup]]

(* C38: no write failing, when message events, contact events and subject  *)
(* lookups have happened and from some point on no more do, the chat       *)
(* directory file comes to hold the directory, names and last-activity     *)
(* timestamps included, and keeps holding it                               *)
C38_ChatStorePersisted ==
    (<>DirectoryEvent(lastOp.op) /\ <>[][~DirectoryEvent(lastOp'.op)]_vars)
        => <>[]ChatStoreSaved

(* C38, supporting: under the same conditions the file comes to hold every *)
(* record of the directory with its name                                   *)
C38_NamesPersisted ==
    (<>DirectoryEvent(lastOp.op) /\ <>[][~DirectoryEvent(lastOp'.op)]_vars)
        => <>[](chatFile.exists /\ Named(chatFile.data) = Named(chatStore))

(* ---------------------------------------------------------------------- *)
(* Raw payloads loaded from the file                                       *)

(* the keys of the entries of the file *)
FileKeys(file) ==
    {RawKey(file.data[i].chatId, file.data[i].id) : i \in 1..Len(file.data)}

(* C39: the load of raw payloads that a connected status triggers keeps    *)
(* every entry of the cache as it is, adds an entry rebuilt from the file  *)
(* for the keys of the file that were not cached and for no other key, and *)
(* leaves the message store as it was                                      *)
C39_RawLoadOnlyAdds ==
    [][(lastOp'.op = "open")
         => /\ \A k \in DOMAIN rawMessageByKey :
                  k \in DOMAIN rawMessageByKey' /\ rawMessageByKey'[k] = rawMessageByKey[k]
            /\ \A k \in DOMAIN rawMessageByKey' \ DOMAIN rawMessageByKey :
                  /\ persistMessages /\ messageFile.exists
                  /\ k \in FileKeys(messageFile)
                  /\ rawMessageByKey'[k] = "disk"
            /\ (persistMessages /\ messageFile.exists)
                  => FileKeys(messageFile) \subseteq DOMAIN rawMessageByKey'
            /\ messageStore' = messageStore]_vars

(* a connected status was published with the file holding a key that was  *)
(* cached from a live event and a key that was not: the first is still    *)
(* the live envelope, the second was rebuilt from the file                *)
C39_Witness ==
    /\ lastOp.op = "open"
    /\ messageFile.exists
    /\ \E k1, k2 \in FileKeys(messageFile) :
          /\ k1 \in DOMAIN rawMessageByKey /\ rawMessageByKey[k1] = "live"
          /\ k2 \in DOMAIN rawMessageByKey /\ rawMessageByKey[k2] = "disk"

(* ---------------------------------------------------------------------- *)
(* The subject lookup ends                                                 *)

(* the 2 s timer of a race that is still open fires; whether the transport *)
(* answers is up to the transport                                          *)
FairGroup == \A j \in GroupJids : WF_vars(GroupLookupTimesOut(j))

SpecGroupFair == InitConn /\ [][NextGroup]_vars /\ FairGroup

(* C40: a group in the in-flight set leaves it, whether the lookup is      *)
(* answered with a subject, fails, or is never answered; and a message of  *)
(* a group that is not in the set and whose name is still the provisional  *)
(* one puts it in the set again with a new lookup                          *)
C40_LookupTerminates ==
    /\ \A j \in GroupJids :
          (j \in groupMetadataInFlight) ~> (j \notin groupMetadataInFlight)
    /\ [][(/\ lastOp'.op = "upsert"
            /\ IsGroupJid(lastOp'.args[1].remoteJid)
            /\ lastOp'.args[1].remoteJid \notin groupMetadataInFlight
            /\ socket # 0
            /\ ChatGet(chatStore', lastOp'.args[1].remoteJid).name
                 = LocalPart(lastOp'.args[1].remoteJid))
             => /\ lastOp'.args[1].remoteJid \in groupMetadataInFlight'
                /\ groupLookups'[lastOp'.args[1].remoteJid]
                     = groupLookups[lastOp'.args[1].remoteJid] + 1]_vars

(* a lookup that timed out is still unanswered, and a later message of the *)
(* group has started a new one                                             *)
C40_Witness ==
    /\ lastOp.op = "upsert"
    /\ lastOp.args[1].remoteJid = "g@g.us"
    /\ "g@g.us" \in groupMetadataInFlight
    /\ groupLookups["g@g.us"] = 2

====
